---- MODULE Spec2Model ----
(***************************************************************************)
(* Model of the Ayn x86 handheld platform driver (ShadowBlip/ayn-platform). *)
(*                                                                         *)
(* The embedded controller (EC) is a byte-addressable register file.  Every *)
(* access goes through read_from_ec / write_to_ec, which bracket the        *)
(* register I/O with the ACPI global lock.  On top of that sit the hwmon    *)
(* callbacks (fan speed, pwm duty cycle, pwm mode), the sysfs attributes    *)
(* for the thermal sensors and the five point fan curve, and the RGB LED.   *)
(* Three revisions of the driver source are modelled; they differ in the    *)
(* pwm range check, in what ayn_platform_probe does and in the presence of  *)
(* the thermal sensors and the LED.                                         *)
(*                                                                         *)
(* Callers are kernel threads entering a handler.  A handler runs as a      *)
(* sequence of steps: entry (argument validation, register selection), one  *)
(* step per lock operation and per EC byte access, and the handler's own    *)
(* computation folded into the step that ends a transaction.  One of the    *)
(* callers is the thread that loads and unloads the module: probe is a      *)
(* step per registration call, and undoing the registration of the LED      *)
(* class device runs the brightness handler on that thread.                 *)
(***************************************************************************)
EXTENDS Integers, Sequences, FiniteSets, TLC

\* ------------------------------------------------------------------ bounds

\* Number of concurrent callers of the driver.
NumCallers == 2

\* Number of handler calls in one run of the concurrent specification.
MaxCalls == 3

\* Number of handler calls in one run of a single-caller specification.
MaxSeqCalls == 2

\* Number of brightness sets in one run of the channel value specification.
MaxLedNumCalls == 1

\* Number of handler calls in one run of the concurrent LED specification.
MaxRaceCalls == 3

\* Largest number of bytes a label printed through a stray name pointer is
\* taken to have: with its newline it fills the page sysfs hands to the
\* handler.
MaxGarbageLen == 4095

\* ------------------------------------------------------- program constants

EBUSY == 16
EINVAL == 22
EOPNOTSUPP == 95
ENODEV == 19
ERANGE == 34
ENOMEM == 12
EEXIST == 17
ETIME == 62
EIO == 5

AYN_SENSOR_BAT_TEMP_REG == 4
AYN_SENSOR_CHARGE_TEMP_REG == 7
AYN_SENSOR_MB_TEMP_REG == 5
AYN_SENSOR_PROC_TEMP_REG == 9
AYN_SENSOR_VCORE_TEMP_REG == 8

AYN_SENSOR_PWM_FAN_MODE_REG == 16
AYN_SENSOR_PWM_FAN_SET_REG == 17
AYN_SENSOR_PWM_FAN_SPEED_REG == 32

AYN_SENSOR_PWM_FAN_SPEED_1_REG == 18
AYN_SENSOR_PWM_FAN_SPEED_2_REG == 20
AYN_SENSOR_PWM_FAN_SPEED_3_REG == 22
AYN_SENSOR_PWM_FAN_SPEED_4_REG == 24
AYN_SENSOR_PWM_FAN_SPEED_5_REG == 26
AYN_SENSOR_PWM_FAN_TEMP_1_REG == 19
AYN_SENSOR_PWM_FAN_TEMP_2_REG == 21
AYN_SENSOR_PWM_FAN_TEMP_3_REG == 23
AYN_SENSOR_PWM_FAN_TEMP_4_REG == 25
AYN_SENSOR_PWM_FAN_TEMP_5_REG == 27

AYN_LED_MC_B_REG == 178
AYN_LED_MC_G_REG == 177
AYN_LED_MC_R_REG == 176
AYN_LED_MODE_REG == 179

\* RGB mode values
AYN_LED_MODE_BREATH == 0
AYN_LED_MODE_WRITE == 170
AYN_LED_MODE_WRITE_ENABLED == 85

\* enum ayn_model; 0 is the value of the zero-initialised static.
ayn_loki_max == 1
ayn_loki_minipro == 2
ayn_loki_zero == 3

\* ------------------------------------------------------------------ state

VARIABLES
    ec,         \* the EC register file: register address -> byte
    holder,     \* caller holding the ACPI global lock, 0 when free
    model,      \* static enum ayn_model model
    pdev,       \* the platform device: how far ayn_platform_probe got
    board,      \* DMI board vendor and board name of the machine
    revision,   \* which revision of the driver is loaded
    led_cdev,   \* ayn_led_mc: brightness and the three sub-LED intensities
    th,         \* per caller: the handler it is in and its locals
    wlog,       \* per register: boundary value of the handler write that
                \* produced its current contents (NoVal: none)
    busLast,    \* caller that made the most recent ec_read/ec_write (0: none)
    ncalls      \* number of handler calls entered so far

vars == <<ec, holder, model, pdev, board, revision, led_cdev, th, wlog,
          busLast, ncalls>>

Callers == 1..NumCallers

\* The thread that loads and unloads the module: it runs ayn_platform_probe
\* and ayn_platform_exit and, when a registration is undone, the callbacks
\* the release of the registration calls.  Outside probe and exit it is a
\* caller like the others.
KThread == CHOOSE t \in Callers : TRUE

NoVal == "none"

\* The three revisions of the driver source that are modelled.
REV_PLATFORM == "ayn-platform"   \* src/unnamed/part_003 (hwmon + RGB LED)
REV_SENSORS == "ayn-sensors"     \* src/ayn-sensors.c (documented by src/README.md)
REV_DMI == "ayn-platform-dmi"    \* src/unnamed/part_004 (hwmon, model from DMI)

\* The EC address space: ec is defined on every u8 address.
Byte == 0..255

\* The registers the driver names: the sentinel table entry's register 0,
\* the thermal sensors, fan mode / set point, the fan curve, the two fan
\* speed bytes and the RGB registers.  Every write of the driver goes to one
\* of them.
Regs ==
    {0, 4, 5, 7, 8, 9} \cup (16..27) \cup {32, 33} \cup (176..179)

\* ayn_platform_probe has returned 0 and ayn_platform_exit has not run.
attached == pdev.status = "bound"

\* ------------------------------------------------------- static tables

\* dmi_first_match(dmi_table): the driver_data (enum ayn_model) of the first
\* entry whose two exact matches, DMI_BOARD_VENDOR "ayn" and DMI_BOARD_NAME,
\* both hold; 0 when no entry matches (dmi_first_match returns NULL).
dmi_table(vendor, name) ==
    CASE vendor = "ayn" /\ name = "Loki Max" -> ayn_loki_max
      [] vendor = "ayn" /\ name = "Loki MiniPro" -> ayn_loki_minipro
      [] vendor = "ayn" /\ name = "Loki Zero" -> ayn_loki_zero
      [] OTHER -> 0

\* The machine most specifications run on, as its DMI data describe it.
LokiMax == [vendor |-> "ayn", name |-> "Loki Max"]

\* thermal_sensors[]: five sensors and the zero sentinel entry at index 5.
\* len is the number of characters "%s" prints for name; the NULL name of
\* the sentinel is printed as "(null)".
thermal_sensors ==
    [i \in 0..5 |->
        CASE i = 0 -> [name |-> "Battery", len |-> 7,
                       reg |-> AYN_SENSOR_BAT_TEMP_REG]
          [] i = 1 -> [name |-> "Motherboard", len |-> 11,
                       reg |-> AYN_SENSOR_MB_TEMP_REG]
          [] i = 2 -> [name |-> "Charger IC", len |-> 10,
                       reg |-> AYN_SENSOR_CHARGE_TEMP_REG]
          [] i = 3 -> [name |-> "vCore", len |-> 5,
                       reg |-> AYN_SENSOR_VCORE_TEMP_REG]
          [] i = 4 -> [name |-> "CPU Core", len |-> 8,
                       reg |-> AYN_SENSOR_PROC_TEMP_REG]
          [] OTHER -> [name |-> "(null)", len |-> 6, reg |-> 0]]

\* What a stray name pointer can make "%s" print: another string of the
\* module or the kernel, or any run of bytes up to the next zero byte
\* ("(bytes)", of any length); "(fault)" stands for a pointer that cannot be
\* dereferenced.
GarbageNames ==
    {[name |-> "temp1_input", len |-> 11],
     [name |-> "pwm1_auto_point1_pwm", len |-> 20],
     [name |-> "none", len |-> 4],
     [name |-> "unlock", len |-> 6],
     [name |-> "(null)", len |-> 6],
     [name |-> "(fault)", len |-> 0]}
    \cup {[name |-> "(bytes)", len |-> n] : n \in 0..MaxGarbageLen}

\* What thermal_sensors[index] can yield: names is what its name field can
\* be, regs what its reg field can be.  Inside the array they are the fields
\* of the entry; outside it (index 6 and up, or negative) the load is out of
\* bounds: where the address is mapped, whatever lies there is taken as the
\* entry, any name pointer and any register (reg is handed to the u8
\* parameter of read_from_ec); where it is not, the load itself faults
\* (register -1, name "(fault)").
thermal_sensors_at(index) ==
    IF index \in 0..5
    THEN [names |-> {[name |-> thermal_sensors[index].name,
                      len |-> thermal_sensors[index].len]},
          regs |-> {thermal_sensors[index].reg}]
    ELSE [names |-> GarbageNames, regs |-> Byte \cup {0 - 1}]

\* Mutant: the last temperature point selects the register of the fourth.
pwm_curve_reg_dup(index) ==
    CASE index \in 0..4 -> AYN_SENSOR_PWM_FAN_SPEED_1_REG + 2 * index
      [] index \in 5..8 -> AYN_SENSOR_PWM_FAN_TEMP_1_REG + 2 * (index - 5)
      [] index = 9 -> AYN_SENSOR_PWM_FAN_TEMP_4_REG
      [] OTHER -> -1

\* The register selected by the first switch of pwm_curve_store and
\* pwm_curve_show; -1 for the default branch (return -EINVAL).
pwm_curve_reg(index) ==
    CASE index = 0 -> AYN_SENSOR_PWM_FAN_SPEED_1_REG
      [] index = 1 -> AYN_SENSOR_PWM_FAN_SPEED_2_REG
      [] index = 2 -> AYN_SENSOR_PWM_FAN_SPEED_3_REG
      [] index = 3 -> AYN_SENSOR_PWM_FAN_SPEED_4_REG
      [] index = 4 -> AYN_SENSOR_PWM_FAN_SPEED_5_REG
      [] index = 5 -> AYN_SENSOR_PWM_FAN_TEMP_1_REG
      [] index = 6 -> AYN_SENSOR_PWM_FAN_TEMP_2_REG
      [] index = 7 -> AYN_SENSOR_PWM_FAN_TEMP_3_REG
      [] index = 8 -> AYN_SENSOR_PWM_FAN_TEMP_4_REG
      [] index = 9 -> AYN_SENSOR_PWM_FAN_TEMP_5_REG
      [] OTHER -> -1

\* Mutant: the bound of the other revision.
pwm_input_max_255(rev) == 255

\* Upper bound of the pwm range check, per revision:
\* "val > 255" in part_003, "val > 254" in ayn-sensors.c and part_004.
pwm_input_max(rev) == IF rev = REV_PLATFORM THEN 255 ELSE 254

\* ------------------------------------------------------- pure helpers

RECURSIVE Pow2(_)
Pow2(n) == IF n = 0 THEN 1 ELSE 2 * Pow2(n - 1)

\* x << n and x >> n on a non-negative long (no overflow within the sizes
\* the driver uses: at most two bytes are assembled).
Shl(x, n) == x * Pow2(n)
Shr(x, n) == x \div Pow2(n)

\* Conversion of an int/long to the u8 parameter of write_to_ec.
ToU8(x) == x % 256

\* Number of characters "%ld\n" prints for v.
RECURSIVE DecDigits(_)
DecDigits(v) == IF v < 10 THEN 1 ELSE 1 + DecDigits(v \div 10)
FormatLen(v) == (IF v < 0 THEN 1 + DecDigits(-v) ELSE DecDigits(v)) + 1

\* The text written to a sysfs attribute is a sequence of characters.

\* The value of a digit character as _parse_integer takes it (through
\* _tolower), 16 for a character that is no digit.
DigitValue(ch) ==
    CASE ch = "0" -> 0 [] ch = "1" -> 1 [] ch = "2" -> 2 [] ch = "3" -> 3
      [] ch = "4" -> 4 [] ch = "5" -> 5 [] ch = "6" -> 6 [] ch = "7" -> 7
      [] ch = "8" -> 8 [] ch = "9" -> 9
      [] ch \in {"a", "A"} -> 10 [] ch \in {"b", "B"} -> 11
      [] ch \in {"c", "C"} -> 12 [] ch \in {"d", "D"} -> 13
      [] ch \in {"e", "E"} -> 14 [] ch \in {"f", "F"} -> 15
      [] OTHER -> 16

\* An unsigned long long as five 15-bit limbs, lowest first (bits 60..63 are
\* the low four bits of the fifth limb).
UllZero == <<0, 0, 0, 0, 0>>

\* limbs * base + carry; the result has one limb more than the operand.
RECURSIVE ull_muladd(_, _, _)
ull_muladd(limbs, base, carry) ==
    IF limbs = <<>> THEN <<carry>>
    ELSE <<(Head(limbs) * base + carry) % 32768>>
         \o ull_muladd(Tail(limbs), base,
                       (Head(limbs) * base + carry) \div 32768)

\* The accumulator of _parse_integer after one more digit, r being
\* res * base + digit: the low 64 bits are kept, rv counts the digit, and
\* overflow is set once the value leaves 64 bits.
parse_integer_digit(a, r) ==
    [res |-> [SubSeq(r, 1, 5) EXCEPT ![5] = @ % 16],
     rv |-> a.rv + 1,
     overflow |-> a.overflow \/ r[5] >= 16]

\* _parse_integer: the digits of s in the base are accumulated until the
\* first character that is not a digit of the base.
RECURSIVE parse_integer(_, _, _)
parse_integer(s, base, a) ==
    IF s = <<>> \/ DigitValue(Head(s)) >= base THEN a
    ELSE parse_integer(Tail(s), base,
            parse_integer_digit(a,
                ull_muladd(a.res, base, DigitValue(Head(s)))))

\* _parse_integer_fixup_radix for base 0: "0x" followed by a hex digit
\* selects 16, any other leading "0" selects 8, everything else 10.
parse_integer_fixup_radix(s) ==
    IF Len(s) >= 1 /\ s[1] = "0"
    THEN IF Len(s) >= 3 /\ s[2] \in {"x", "X"} /\ DigitValue(s[3]) < 16
         THEN 16 ELSE 8
    ELSE 10

\* The end of _kstrtoull, d being the text after the radix prefix and a what
\* _parse_integer made of it: -ERANGE on overflow, -EINVAL when there is no
\* digit or when anything but one newline follows the digits.
kstrtoull_result(d, a) ==
    LET rest == SubSeq(d, a.rv + 1, Len(d))
        tail == IF rest # <<>> /\ Head(rest) = "\n" THEN Tail(rest) ELSE rest
    IN IF a.overflow THEN [ret |-> -ERANGE, res |-> UllZero]
       ELSE IF a.rv = 0 THEN [ret |-> -EINVAL, res |-> UllZero]
       ELSE IF tail # <<>> THEN [ret |-> -EINVAL, res |-> UllZero]
       ELSE [ret |-> 0, res |-> a.res]

\* _kstrtoull(s, 0, &res).
kstrtoull_body(s) ==
    IF parse_integer_fixup_radix(s) = 16
    THEN kstrtoull_result(SubSeq(s, 3, Len(s)),
            parse_integer(SubSeq(s, 3, Len(s)), 16,
                          [res |-> UllZero, rv |-> 0, overflow |-> FALSE]))
    ELSE kstrtoull_result(s,
            parse_integer(s, parse_integer_fixup_radix(s),
                          [res |-> UllZero, rv |-> 0, overflow |-> FALSE]))

\* The end of kstrtoint, u being what _kstrtoull made of the text after the
\* sign: -ERANGE when the number does not fit an int.  val is meaningful
\* when ret = 0.
kstrtoint_result(neg, u) ==
    LET l == u.res
        mag == l[1] + 32768 * l[2] + 1073741824 * l[3]
    IN IF u.ret # 0 THEN [ret |-> u.ret, val |-> 0]
       ELSE IF l[4] = 0 /\ l[5] = 0 /\ l[3] < 2
            THEN [ret |-> 0, val |-> IF neg THEN 0 - mag ELSE mag]
       ELSE IF neg /\ l = <<0, 0, 2, 0, 0>>
            THEN [ret |-> 0, val |-> (0 - 2147483647) - 1]
       ELSE [ret |-> -ERANGE, val |-> 0]

\* kstrtoint(buf, 0, &val): an optional sign, then _kstrtoull.
kstrtoint(s) ==
    kstrtoint_result(s # <<>> /\ Head(s) = "-",
        kstrtoull_body(IF s # <<>> /\ Head(s) \in {"-", "+"}
                       THEN Tail(s) ELSE s))

\* The decimal digits of a non-negative number.
RECURSIVE DecChars(_)
DecChars(v) ==
    LET digits == <<"0", "1", "2", "3", "4", "5", "6", "7", "8", "9">>
    IN IF v < 10 THEN <<digits[v + 1]>>
       ELSE DecChars(v \div 10) \o <<digits[(v % 10) + 1]>>

\* The text "echo v" writes to an attribute: the decimal number and a
\* newline.
echo(v) ==
    (IF v < 0 THEN <<"-">> \o DecChars(0 - v) ELSE DecChars(v)) \o <<"\n">>

\* Mutant: bytes assembled with the lowest address as the low-order byte.
read_accumulate_le(val, i, buffer) == val + Shl(buffer, i * 8)

\* One iteration of the loop body of read_from_ec after a successful
\* ec_read of byte number i:  *val <<= i * 8;  *val += buffer;
read_accumulate(val, i, buffer) == Shl(val, i * 8) + buffer

\* The model switch in ayn_platform_read: *val << 1 for the known models.
pwm_scale_read(m, val) ==
    IF m \in {ayn_loki_max, ayn_loki_minipro, ayn_loki_zero}
    THEN Shl(val, 1) ELSE val

\* The model switch in ayn_platform_write: val >> 1 for the known models.
pwm_scale_write(m, val) ==
    IF m \in {ayn_loki_max, ayn_loki_minipro, ayn_loki_zero}
    THEN Shr(val, 1) ELSE val

\* Mutant: the mode byte handed out as the EC holds it.
pwm_mode_remap_raw(val) == val

\* The switch on *val in the hwmon_pwm_mode branch of ayn_platform_read.
pwm_mode_remap(val) ==
    CASE val = 0 -> 1
      [] val = 1 -> 0
      [] OTHER -> val

\* Mutant: every known type is writable.
ayn_ec_hwmon_is_visible_rw(type) ==
    CASE type = "fan" -> "0644"
      [] type = "pwm" -> "0644"
      [] OTHER -> "0"

\* ayn_ec_hwmon_is_visible
ayn_ec_hwmon_is_visible(type) ==
    CASE type = "fan" -> "0444"
      [] type = "pwm" -> "0644"
      [] OTHER -> "0"

\* ------------------------------------------------------- caller frames

\* A caller outside any handler.
IdleFrame ==
    [op |-> "none", type |-> NoVal, attr |-> NoVal, idx |-> 0, arg |-> 0,
     input |-> <<>>, kret |-> 0,
     pc |-> "idle", tx |-> NoVal, reg |-> 0, size |-> 0, i |-> 0,
     prior |-> 0, out |-> 0, wval |-> 0, txret |-> 0, stage |-> 0,
     ret |-> 0, buf |-> -1, text |-> NoVal,
     rc |-> 0, ntx |-> 0, acquired |-> FALSE, txio |-> 0,
     nread |-> 0, nwrite |-> 0, nfail |-> 0, lastreg |-> -1, lastold |-> 0]

\* Fields of a frame: op, type, attr, idx, arg, input are the handler and
\* its arguments (input is the text written to a sysfs attribute, of which
\* kstrtoint returned kret and made arg); pc, tx, reg, size, i, wval, txret
\* are the position and the
\* locals of the running read_from_ec / write_to_ec; prior and out are the
\* caller's result variable before the call and now; ret, buf, text are the
\* handler's return value and what it printed.  The rest is bookkeeping:
\* rc is what the last transaction returned, ntx the transactions started in
\* this call, acquired whether the last one got the lock, txio its ec_read /
\* ec_write calls, nread and nwrite those of the whole call, nfail the ones
\* of them that failed; lastreg is the register the call's last successful
\* ec_write went to (-1: none) and lastold what it held before that write.

\* A request: the handler called and its arguments.
Rq(op, type, attr, idx, arg) ==
    [op |-> op, type |-> type, attr |-> attr, idx |-> idx, arg |-> arg,
     input |-> <<>>]

\* A request to a sysfs store handler: text is what was written (buf), its
\* length is count.
RqStore(op, idx, text) ==
    [op |-> op, type |-> NoVal, attr |-> NoVal, idx |-> idx, arg |-> 0,
     input |-> text]

\* The frame of a caller entering handler rq.op; p is what the caller's
\* result variable (long val) holds before the call.
Frame(rq, p) ==
    [IdleFrame EXCEPT !.op = rq.op, !.type = rq.type, !.attr = rq.attr,
                      !.idx = rq.idx, !.arg = rq.arg, !.input = rq.input,
                      !.prior = p, !.out = p]

\* The handler calls read_from_ec(reg, size, &val).
StartRead(c, reg, size) ==
    [c EXCEPT !.pc = "acquire", !.tx = "read", !.reg = ToU8(reg),
              !.size = size, !.i = 0, !.txret = 0,
              !.ntx = c.ntx + 1, !.acquired = FALSE, !.txio = 0]

\* The handler calls write_to_ec(reg, val); both parameters are u8.
StartWrite(c, reg, val) ==
    [c EXCEPT !.pc = "acquire", !.tx = "write", !.reg = ToU8(reg),
              !.wval = ToU8(val), !.size = 0, !.i = 0, !.txret = 0,
              !.ntx = c.ntx + 1, !.acquired = FALSE, !.txio = 0]

\* The handler dereferences a pointer that cannot be dereferenced: the
\* call never returns.
Fault(c) == [c EXCEPT !.pc = "fault"]

\* The handler returns ret to its caller.
Finish(c, ret) ==
    [c EXCEPT !.pc = "done", !.ret = ret, !.tx = NoVal, !.reg = 0,
              !.size = 0, !.i = 0, !.wval = 0, !.txret = 0, !.stage = 0]

\* ------------------------------------------------------- handler entry

\* Mutant: the conversion by a wrong factor.
thermal_sensor_scale_100(val) == val * 100

\* thermal_sensor_temp: the conversion applied to a successfully read byte.
thermal_sensor_scale(val) == val * 1000

\* ayn_platform_read up to its first read_from_ec (or its return).
ayn_platform_read_enter(c) ==
    CASE c.type = "fan" /\ c.attr = "input" ->
            StartRead(c, AYN_SENSOR_PWM_FAN_SPEED_REG, 2)
      [] c.type = "pwm" /\ c.attr = "input" ->
            StartRead(c, AYN_SENSOR_PWM_FAN_SET_REG, 1)
      [] c.type = "pwm" /\ c.attr = "mode" ->
            StartRead(c, AYN_SENSOR_PWM_FAN_MODE_REG, 1)
      [] OTHER -> Finish(c, -EOPNOTSUPP)

\* Mutant: the upper bound of the check off by one.
pwm_input_rejected_low(rev, val) == val < 0 \/ val >= pwm_input_max(rev)

\* The range check of the hwmon_pwm_input branch of ayn_platform_write.
pwm_input_rejected(rev, val) == val < 0 \/ val > pwm_input_max(rev)

\* Mutant: a value that is none of 0, 1, 2 selects automatic mode.
pwm_mode_hw_lax(val) ==
    CASE val = 1 -> 0
      [] val = 2 -> 2
      [] OTHER -> 1

\* The if chain of the hwmon_pwm_mode branch of ayn_platform_write: the byte
\* ayn_pwm_manual / ayn_pwm_user / ayn_pwm_auto write, -1 for "return -EINVAL".
pwm_mode_hw(val) ==
    CASE val = 1 -> 0
      [] val = 2 -> 2
      [] val = 0 -> 1
      [] OTHER -> -1

\* ayn_platform_write up to its write_to_ec (or its return).
ayn_platform_write_enter(c, m, rev) ==
    CASE c.type = "pwm" /\ c.attr = "mode" ->
            IF pwm_mode_hw(c.arg) = -1
            THEN Finish(c, -EINVAL)
            ELSE StartWrite(c, AYN_SENSOR_PWM_FAN_MODE_REG, pwm_mode_hw(c.arg))
      [] c.type = "pwm" /\ c.attr = "input" ->
            IF pwm_input_rejected(rev, c.arg)
            THEN Finish(c, -EINVAL)
            ELSE StartWrite(c, AYN_SENSOR_PWM_FAN_SET_REG,
                            pwm_scale_write(m, c.arg))
      [] OTHER -> Finish(c, -EOPNOTSUPP)

\* thermal_sensor_show up to read_from_ec; reg is thermal_sensors[index].reg,
\* -1 when loading it faults.
thermal_sensor_show_enter(c, reg) ==
    IF reg = -1 THEN Fault(c) ELSE StartRead(c, reg, 1)

\* thermal_sensor_label: sprintf(buf, "%s\n", thermal_sensors[index].name);
\* e is the name and the number of characters it prints.
thermal_sensor_label_enter(c, e) ==
    IF e.name = "(fault)" THEN Fault(c)
    ELSE Finish([c EXCEPT !.text = e.name], e.len + 1)

\* Mutant: the upper bound of the temperature check is missing.
pwm_curve_rejected_lax(rev, index, val) ==
    IF index \in 0..4 THEN val < 0 \/ val > pwm_input_max(rev)
    ELSE val < 0

\* The range check of the second switch of pwm_curve_store.
pwm_curve_rejected(rev, index, val) ==
    IF index \in 0..4 THEN val < 0 \/ val > pwm_input_max(rev)
    ELSE val < 0 \/ val > 100

\* Mutant: the pwm points stored unscaled.
pwm_curve_scale_write_none(index, val) == val

\* The scaling of the second switch of pwm_curve_store: val >> 1 for the
\* pwm points (indices 0..4), the temperature points as given.
pwm_curve_scale_write(index, val) ==
    IF index \in 0..4 THEN Shr(val, 1) ELSE val

\* Mutant: every field shifted on the way out.
pwm_curve_scale_read_all(index, val) == Shl(val, 1)

\* The switch after read_from_ec in pwm_curve_show: val << 1 for the pwm
\* points, the temperature points as read.
pwm_curve_scale_read(index, val) ==
    IF index \in 0..4 THEN Shl(val, 1) ELSE val

\* The frame after "retval = kstrtoint(buf, 0, &val)", k being what
\* kstrtoint made of the text.
parsed(c, k) == [c EXCEPT !.kret = k.ret, !.arg = k.val]

\* pwm_curve_store from "if (retval) return retval" to write_to_ec: what
\* kstrtoint returned when it rejects the text, -EINVAL from either switch.
pwm_curve_store_val(c, rev) ==
    IF c.kret # 0 THEN Finish(c, c.kret)
    ELSE IF pwm_curve_reg(c.idx) = -1 THEN Finish(c, -EINVAL)
    ELSE IF pwm_curve_rejected(rev, c.idx, c.arg) THEN Finish(c, -EINVAL)
    ELSE StartWrite(c, pwm_curve_reg(c.idx), pwm_curve_scale_write(c.idx, c.arg))

\* pwm_curve_store up to write_to_ec.
pwm_curve_store_enter(c, rev) ==
    pwm_curve_store_val(parsed(c, kstrtoint(c.input)), rev)

\* pwm_curve_show up to read_from_ec.
pwm_curve_show_enter(c) ==
    IF pwm_curve_reg(c.idx) = -1 THEN Finish(c, -EINVAL)
    ELSE StartRead(c, pwm_curve_reg(c.idx), 1)

\* Mutant: the two modes swapped on the way in.
led_mode_hw_swapped(val) ==
    IF val # 0 THEN AYN_LED_MODE_BREATH ELSE AYN_LED_MODE_WRITE

\* led_mode_store: if (val) mode = AYN_LED_MODE_WRITE; else mode =
\* AYN_LED_MODE_BREATH;
led_mode_hw(val) ==
    IF val # 0 THEN AYN_LED_MODE_WRITE ELSE AYN_LED_MODE_BREATH

\* The switch on mode in led_mode_show.  enum led_mode is breath = 0,
\* write = 1; the default branch assigns nothing, so val keeps whatever the
\* uninitialised local held (garbage).  What sysfs_emit then prints is
\* recorded as the number when it is 0 or 1 and as "(int)", some other
\* number of that many characters, when it is not.
led_mode_boundary(mode, garbage) ==
    CASE mode = AYN_LED_MODE_BREATH -> 0
      [] mode \in {AYN_LED_MODE_WRITE, AYN_LED_MODE_WRITE_ENABLED} -> 1
      [] OTHER -> garbage

\* led_mode_store from "if (ret) return ret" to write_to_ec.
led_mode_store_val(c) ==
    IF c.kret # 0 THEN Finish(c, c.kret)
    ELSE StartWrite(c, AYN_LED_MODE_REG, led_mode_hw(c.arg))

\* led_mode_store up to write_to_ec.
led_mode_store_enter(c) == led_mode_store_val(parsed(c, kstrtoint(c.input)))

\* 10 to the power n.
RECURSIVE Pow10(_)
Pow10(n) == IF n = 0 THEN 1 ELSE 10 * Pow10(n - 1)

\* The locals "long mode" and "int val" of led_mode_show have no initialiser:
\* on entry each holds whatever its stack slot held, any number.  Of such a
\* number v the handler can only show whether it is 0, whether it is 1, and
\* the number of characters "%d" prints for it, so the frame keeps the
\* smallest number in size that agrees with v in these: 0 and 1 themselves,
\* 2 for 2..9, 10 for 10..99, -1 for -9..-1, and so on up to ten digits on
\* either side.
LedValClass(v) ==
    IF v \in {0, 1} THEN v
    ELSE IF v > 0 THEN (IF v < 10 THEN 2 ELSE Pow10(DecDigits(v) - 1))
    ELSE LET w == IF v < 0 - 2147483647 THEN v + 1 ELSE v IN
         0 - Pow10(DecDigits(0 - w) - 1)

\* led_mode_show up to read_from_ec.
led_mode_show_enter(c) ==
    StartRead([c EXCEPT !.prior = LedValClass(c.prior),
                        !.out = LedValClass(c.out)], AYN_LED_MODE_REG, 1)

\* The frames a caller can have right after entering handler rq.
Enter(rq, p, m, rev) ==
    LET c == Frame(rq, p) IN
    CASE rq.op = "ayn_platform_read" -> {ayn_platform_read_enter(c)}
      [] rq.op = "ayn_platform_write" -> {ayn_platform_write_enter(c, m, rev)}
      [] rq.op = "thermal_sensor_show" ->
            {thermal_sensor_show_enter(c, r) :
                r \in thermal_sensors_at(rq.idx).regs}
      [] rq.op = "thermal_sensor_label" ->
            {thermal_sensor_label_enter(c, e) :
                e \in thermal_sensors_at(rq.idx).names}
      [] rq.op = "pwm_curve_store" -> {pwm_curve_store_enter(c, rev)}
      [] rq.op = "pwm_curve_show" -> {pwm_curve_show_enter(c)}
      [] rq.op = "led_mode_store" -> {led_mode_store_enter(c)}
      [] rq.op = "led_mode_show" -> {led_mode_show_enter(c)}
      [] rq.op = "ayn_ec_hwmon_is_visible" ->
            {Finish([c EXCEPT !.text = ayn_ec_hwmon_is_visible(rq.type)], 0)}
      [] OTHER -> {Finish(c, -EOPNOTSUPP)}

\* ------------------------------------------------------- RGB LED

\* ayn_led_mc_subled_info[i].channel, i counted from 1.
subled_channel(i) ==
    CASE i = 1 -> AYN_LED_MC_R_REG
      [] i = 2 -> AYN_LED_MC_G_REG
      [] i = 3 -> AYN_LED_MC_B_REG

\* Mutant: any mode but breathing counts as user defined.
led_mode_is_manual_lax(mode) == mode # AYN_LED_MODE_BREATH

\* The switch on mode in ayn_led_mc_brightness_set: the write goes on for
\* AYN_LED_MODE_WRITE and AYN_LED_MODE_WRITE_ENABLED only.
led_mode_is_manual(mode) ==
    mode \in {AYN_LED_MODE_WRITE, AYN_LED_MODE_WRITE_ENABLED}

\* Mutant: the channel gets the intensity whatever the brightness.
led_channel_value_unscaled(brightness, intensity, max_brightness) == intensity

\* val = brightness * s_led.intensity / led_cdev->max_brightness
led_channel_value(brightness, intensity, max_brightness) ==
    (brightness * intensity) \div max_brightness

\* Mutant: the mode register is written before the channels.
led_write_reg_mode_first(k) ==
    IF k = 1 THEN AYN_LED_MODE_REG ELSE subled_channel(k - 1)

\* The register of the k-th write_to_ec of ayn_led_mc_brightness_set: the
\* three channels in subled_info order, then the mode register.
led_write_reg(k) ==
    IF k <= 3 THEN subled_channel(k) ELSE AYN_LED_MODE_REG

\* The k-th write_to_ec of ayn_led_mc_brightness_set, l being ayn_led_mc.
led_write_step(c, k, l) ==
    LET reg == led_write_reg(k) IN
    StartWrite([c EXCEPT !.stage = k], reg,
               IF reg = AYN_LED_MODE_REG THEN AYN_LED_MODE_WRITE
               ELSE led_channel_value(c.arg,
                        l.intensity[CHOOSE i \in 1..3 : subled_channel(i) = reg],
                        l.max_brightness))

\* ayn_led_mc_brightness_set after a transaction returned r.  The function
\* is void: it reports nothing, and the result of a write is not looked at.
led_set_continue(c, r, l) ==
    IF c.stage = 0
    THEN IF r # 0 THEN Finish(c, 0)
         ELSE IF ~led_mode_is_manual(c.out) THEN Finish(c, 0)
         ELSE led_write_step(c, 1, l)
    ELSE IF c.stage < 4 THEN led_write_step(c, c.stage + 1, l)
    ELSE Finish(c, 0)

\* ------------------------------------------------- handler continuation

\* The rest of the handler after its transaction returned r.  The two store
\* handlers end in "return count", the number of bytes written.
Continue(c, r, m) ==
    CASE c.op = "ayn_platform_read" /\ c.attr = "input" /\ c.type = "pwm" ->
            IF r # 0 THEN Finish(c, r)
            ELSE Finish([c EXCEPT !.out = pwm_scale_read(m, c.out)], 0)
      [] c.op = "ayn_platform_read" /\ c.attr = "mode" ->
            Finish([c EXCEPT !.out = pwm_mode_remap(c.out)], r)
      [] c.op = "thermal_sensor_show" ->
            IF r # 0 THEN Finish(c, r)
            ELSE LET v == thermal_sensor_scale(c.out) IN
                 Finish([c EXCEPT !.out = v, !.buf = v], FormatLen(v))
      [] c.op = "pwm_curve_store" ->
            IF r # 0 THEN Finish(c, r) ELSE Finish(c, Len(c.input))
      [] c.op = "pwm_curve_show" ->
            IF r # 0 THEN Finish(c, r)
            ELSE LET v == pwm_curve_scale_read(c.idx, c.out) IN
                 Finish([c EXCEPT !.out = v, !.buf = v], FormatLen(v))
      [] c.op = "ayn_led_mc_brightness_set" -> led_set_continue(c, r, led_cdev)
      [] c.op = "led_mode_store" ->
            IF r # 0 THEN Finish(c, r) ELSE Finish(c, Len(c.input))
      [] c.op = "led_mode_show" ->
            IF r # 0 THEN Finish(c, r)
            ELSE LET v == led_mode_boundary(c.out, c.prior) IN
                 IF v \in {0, 1}
                 THEN Finish([c EXCEPT !.buf = v], FormatLen(v))
                 ELSE Finish([c EXCEPT !.text = "(int)"], FormatLen(v))
      [] OTHER -> Finish(c, r)

\* ------------------------------------------------------- ACPI global lock

\* Mutant: the lock is granted whoever holds it.
acpi_lock_available_always == TRUE

\* acpi_acquire_global_lock grants the lock only while no one holds it.
acpi_lock_available == holder = 0

\* The frame after lock_global_acpi_lock() returned true: read_from_ec
\* clears *val and enters its loop, write_to_ec goes on to ec_write.
after_lock(c) ==
    IF c.tx = "read"
    THEN [c EXCEPT !.acquired = TRUE, !.out = 0, !.i = 0,
                   !.pc = IF 0 < c.size THEN "ec_read" ELSE "release"]
    ELSE [c EXCEPT !.acquired = TRUE, !.pc = "ec_write"]

\* read_from_ec / write_to_ec returns r to the handler, which runs on.
Return(c, r, m) == Continue([c EXCEPT !.rc = r], r, m)

\* What read_from_ec does when ec_read fails with ret: "return ret", with
\* the lock still held.
read_failed(c, m, ret) == Return(c, ret, m)

\* Mutant: the failed acquire is not checked and the transaction runs on.
lock_failed_unchecked(c, m) == [after_lock(c) EXCEPT !.acquired = FALSE]

\* What the transaction does when lock_global_acpi_lock() returned false:
\* "return -EBUSY".
lock_failed(c, m) == Return(c, -EBUSY, m)

\* The boundary value a handler's register write stands for (-1: none).
boundary_value(c) ==
    IF c.op \in {"ayn_platform_write", "pwm_curve_store", "led_mode_store"}
    THEN c.arg ELSE -1

\* ------------------------------------------------------------- actions

\* The platform device as platform_create_bundle hands it to
\* ayn_platform_probe: status is "probing" until probe returns, then "bound"
\* (probe returned 0), "failed" (probe returned ret < 0), "oops" (probe
\* dereferenced NULL) or, after ayn_platform_exit, "removed"; it is
\* "unwinding" while the registrations of a failed probe are undone and
\* "removing" while those of a bound device are; stage counts the
\* registration calls of probe that have succeeded and are not undone yet;
\* hwmon tells whether the hwmon device is registered.
pdev_init == [status |-> "probing", stage |-> 0, ret |-> 0, hwmon |-> FALSE]

\* No caller is inside a handler.
Quiescent == \A t \in Callers : th[t].pc \in {"idle", "done", "fault"}

\* The registration calls of ayn_platform_probe: part_003 registers the LED
\* class device, adds the led_mode attribute group and registers the hwmon
\* device; the other two revisions register the hwmon device only.
probe_steps(rev) == IF rev = REV_PLATFORM THEN 3 ELSE 1

\* Errors the registration calls of probe can return.
ProbeErrors == {0 - ENOMEM, 0 - EINVAL, 0 - EEXIST}

\* The static model after ayn_platform_probe has run its first lines.
\* part_003 never consults dmi_table and ayn-sensors.c looks dmi_entry up
\* and drops it: model stays as it is.  part_004 assigns
\* dmi_entry->driver_data.
ayn_platform_probe_model(rev, vendor, name, m) ==
    IF rev = REV_DMI THEN dmi_table(vendor, name) ELSE m

\* part_004 dereferences dmi_entry without a check: on a machine that
\* matches no entry of dmi_table that is a NULL pointer dereference.
probe_null_deref(rev, vendor, name) ==
    rev = REV_DMI /\ dmi_table(vendor, name) = 0

\* The platform device after the next registration call of probe returned
\* r, nothing being registered that has a callback to run when it is undone.
\* An error is returned by probe at once.
probe_next(p, rev, r) ==
    IF r # 0
    THEN [p EXCEPT !.status = "failed", !.stage = 0, !.ret = r]
    ELSE IF p.stage + 1 = probe_steps(rev)
    THEN [p EXCEPT !.status = "bound", !.stage = p.stage + 1, !.ret = 0,
                   !.hwmon = TRUE]
    ELSE [p EXCEPT !.stage = p.stage + 1]

\* Handler op can be called: the LED callbacks from the first registration
\* call of part_003 until the LED class device is gone, the led_mode
\* attribute (a group of the LED class device) from the second, everything
\* else while the hwmon device is registered.  part_004 has no thermal
\* sensor attributes, and its hwmon device, registered with
\* hwmon_device_register_with_info, outlives ayn_platform_exit.  The thread
\* that is inside ayn_platform_probe or ayn_platform_exit enters no handler
\* of its own.
callable(t, op) ==
    IF t = KThread /\ pdev.status \in {"probing", "unwinding", "removing"}
    THEN FALSE
    ELSE
    CASE op \in {"ayn_led_mc_brightness_set", "ayn_led_mc_brightness_get"} ->
            revision = REV_PLATFORM /\ pdev.stage >= 1
      [] op \in {"led_mode_store", "led_mode_show"} ->
            revision = REV_PLATFORM /\ pdev.stage >= 2
      [] op \in {"thermal_sensor_show", "thermal_sensor_label"} ->
            attached /\ revision # REV_DMI
      [] OTHER -> IF revision = REV_DMI THEN pdev.hwmon ELSE attached

\* Caller t enters handler rq; p is the prior content of its result
\* variable, max the number of calls the run is cut at.  After
\* ayn_platform_exit (part_004 only) the call goes into a module that is
\* unloaded: it runs the handler or faults.
Call(t, rq, p, max) ==
    /\ callable(t, rq.op)
    /\ ncalls < max
    /\ th[t].pc \in {"idle", "done"}
    /\ \E c \in Enter(rq, p, model, revision)
                \cup (IF pdev.status = "removed"
                      THEN {Fault(Frame(rq, p))} ELSE {}) :
          th' = [th EXCEPT ![t] = c]
    /\ ncalls' = ncalls + 1
    /\ UNCHANGED <<ec, holder, model, pdev, board, revision, led_cdev, wlog, busLast>>

\* Mutant: the requested level is not kept.
led_brightness_store_skip(l, brightness) == l

\* led_cdev->brightness = brightness;
led_brightness_store(l, brightness) == [l EXCEPT !.brightness = brightness]

\* Caller t enters ayn_led_mc_brightness_set(led_cdev, brightness); p is
\* what the uninitialised local mode holds.
ayn_led_mc_brightness_set(t, brightness, p, max) ==
    /\ callable(t, "ayn_led_mc_brightness_set")
    /\ ncalls < max
    /\ th[t].pc \in {"idle", "done"}
    /\ led_cdev' = [led_brightness_store(led_cdev, brightness)
                        EXCEPT !.requested = brightness]
    /\ th' = [th EXCEPT ![t] =
                StartRead(Frame(Rq("ayn_led_mc_brightness_set", NoVal, NoVal,
                                   0, brightness), p),
                          AYN_LED_MODE_REG, 1)]
    /\ ncalls' = ncalls + 1
    /\ UNCHANGED <<ec, holder, model, pdev, board, revision, wlog, busLast>>

\* Caller t calls ayn_led_mc_brightness_get: return led_cdev->brightness.
ayn_led_mc_brightness_get(t, max) ==
    /\ callable(t, "ayn_led_mc_brightness_get")
    /\ ncalls < max
    /\ th[t].pc \in {"idle", "done"}
    /\ th' = [th EXCEPT ![t] =
                Finish([Frame(Rq("ayn_led_mc_brightness_get", NoVal, NoVal,
                                 0, 0), 0)
                            EXCEPT !.out = led_cdev.brightness],
                       led_cdev.brightness)]
    /\ ncalls' = ncalls + 1
    /\ UNCHANGED <<ec, holder, model, pdev, board, revision, led_cdev, wlog, busLast>>

\* lock_global_acpi_lock() succeeds.
lock_ok(t) ==
    /\ th[t].pc = "acquire"
    /\ acpi_lock_available
    /\ holder' = t
    /\ th' = [th EXCEPT ![t] = after_lock(@)]
    /\ UNCHANGED <<ec, model, pdev, board, revision, led_cdev, wlog, busLast, ncalls>>

\* lock_global_acpi_lock() times out: the transaction returns -EBUSY.
lock_fail(t) ==
    /\ th[t].pc = "acquire"
    /\ th' = [th EXCEPT ![t] = lock_failed(@, model)]
    /\ UNCHANGED <<ec, holder, model, pdev, board, revision, led_cdev, wlog, busLast, ncalls>>

\* One successful ec_read(reg + i, &buffer) of the loop of read_from_ec.
ec_read_ok(t) ==
    /\ th[t].pc = "ec_read"
    /\ LET c == th[t]
           buffer == ec[ToU8(c.reg + c.i)]
           c1 == [c EXCEPT !.out = read_accumulate(c.out, c.i, buffer),
                           !.i = c.i + 1, !.nread = c.nread + 1,
                           !.txio = c.txio + 1]
       IN th' = [th EXCEPT ![t] =
                    IF c1.i < c1.size THEN c1 ELSE [c1 EXCEPT !.pc = "release"]]
    /\ busLast' = t
    /\ UNCHANGED <<ec, holder, model, pdev, board, revision, led_cdev, wlog, ncalls>>

\* The errors ec_read and ec_write can return.
ECErrors == {0 - ENODEV, 0 - ETIME, 0 - EINVAL, 0 - EIO}

\* ec_read fails with err: read_from_ec returns err at once.
ec_read_fail(t, err) ==
    /\ th[t].pc = "ec_read"
    /\ th' = [th EXCEPT ![t] =
                read_failed([@ EXCEPT !.nread = @ + 1, !.txio = @ + 1,
                                      !.nfail = @ + 1],
                            model, err)]
    /\ busLast' = t
    /\ UNCHANGED <<ec, holder, model, pdev, board, revision, led_cdev, wlog, ncalls>>

\* ec_write(reg, val) succeeds.
ec_write_ok(t) ==
    /\ th[t].pc = "ec_write"
    /\ ec' = [ec EXCEPT ![th[t].reg] = th[t].wval]
    /\ wlog' = [wlog EXCEPT ![th[t].reg] = boundary_value(th[t])]
    /\ th' = [th EXCEPT ![t] = [@ EXCEPT !.txret = 0, !.pc = "release",
                                         !.nwrite = @ + 1, !.txio = @ + 1,
                                         !.lastreg = th[t].reg,
                                         !.lastold = ec[th[t].reg]]]
    /\ busLast' = t
    /\ UNCHANGED <<holder, model, pdev, board, revision, led_cdev, ncalls>>

\* ec_write fails with err: ret is kept and the lock is released next.
ec_write_fail(t, err) ==
    /\ th[t].pc = "ec_write"
    /\ th' = [th EXCEPT ![t] = [@ EXCEPT !.txret = err, !.pc = "release",
                                         !.nwrite = @ + 1, !.txio = @ + 1,
                                         !.nfail = @ + 1]]
    /\ busLast' = t
    /\ UNCHANGED <<ec, holder, model, pdev, board, revision, led_cdev, wlog, ncalls>>

\* unlock_global_acpi_lock() succeeds: the transaction returns its result.
unlock_ok(t) ==
    /\ th[t].pc = "release"
    /\ holder' = 0
    /\ th' = [th EXCEPT ![t] = Return(@, @.txret, model)]
    /\ UNCHANGED <<ec, model, pdev, board, revision, led_cdev, wlog, busLast, ncalls>>

\* unlock_global_acpi_lock() fails: the transaction returns -EBUSY and the
\* lock stays as it was.
unlock_fail(t) ==
    /\ th[t].pc = "release"
    /\ th' = [th EXCEPT ![t] = Return(@, -EBUSY, model)]
    /\ UNCHANGED <<ec, holder, model, pdev, board, revision, led_cdev, wlog, busLast, ncalls>>

\* --------------------------------------------------- probe and exit

\* The LED class device is unregistered (the release of
\* devm_led_classdev_multicolor_register): the LED core switches the LED off
\* through the brightness_set callback, ayn_led_mc_brightness_set(led_cdev,
\* LED_OFF), on the thread that undoes the registration.  The call is one
\* of the max handler calls the run is cut at.
led_classdev_unregister(max) ==
    /\ ncalls < max
    /\ ncalls' = ncalls + 1
    /\ led_cdev' = [led_brightness_store(led_cdev, 0) EXCEPT !.requested = 0]
    /\ th' = [th EXCEPT ![KThread] =
                StartRead(Frame(Rq("ayn_led_mc_brightness_set", NoVal, NoVal,
                                   0, 0), 0),
                          AYN_LED_MODE_REG, 1)]

\* The rest of undoing the registrations of part_003: the steps of the
\* brightness set that switches the LED off, then the removal of the LED
\* class device, which waits for the callbacks that are running.
devres_release_all ==
    \/ lock_ok(KThread)
    \/ lock_fail(KThread)
    \/ ec_read_ok(KThread)
    \/ \E err \in ECErrors : ec_read_fail(KThread, err)
    \/ ec_write_ok(KThread)
    \/ \E err \in ECErrors : ec_write_fail(KThread, err)
    \/ unlock_ok(KThread)
    \/ unlock_fail(KThread)
    \/ /\ th[KThread].pc = "done"
       /\ Quiescent
       /\ pdev' = [pdev EXCEPT
                     !.status = IF @ = "removing" THEN "removed" ELSE "failed",
                     !.stage = 0]
       /\ UNCHANGED <<ec, holder, model, board, revision, led_cdev, th, wlog,
                      busLast, ncalls>>

\* One step of ayn_platform_probe: up to and including its next
\* registration call, or, once a registration call of part_003 has failed
\* after the LED class device was registered, one step of undoing the
\* registrations.
ayn_platform_probe(max) ==
    /\ pdev.status \in {"probing", "unwinding"}
    /\ \/ /\ pdev.status = "probing"
          /\ IF pdev.stage = 0
                /\ probe_null_deref(revision, board.vendor, board.name)
             THEN /\ pdev' = [pdev EXCEPT !.status = "oops"]
                  /\ UNCHANGED <<model, led_cdev, th, ncalls>>
             ELSE /\ model' = IF pdev.stage = 0
                              THEN ayn_platform_probe_model(
                                       revision, board.vendor, board.name,
                                       model)
                              ELSE model
                  /\ \E r \in {0} \cup ProbeErrors :
                        IF r # 0 /\ pdev.stage >= 1
                        THEN /\ pdev' = [pdev EXCEPT !.status = "unwinding",
                                                     !.ret = r]
                             /\ led_classdev_unregister(max)
                        ELSE /\ pdev' = probe_next(pdev, revision, r)
                             /\ UNCHANGED <<led_cdev, th, ncalls>>
          /\ UNCHANGED <<ec, holder, board, revision, wlog, busLast>>
       \/ /\ pdev.status = "unwinding"
          /\ devres_release_all

\* No caller is inside a handler of the hwmon device, and the thread that
\* unloads the module is inside none at all.
hwmon_idle ==
    \A t \in Callers :
        \/ th[t].pc \in {"idle", "done", "fault"}
        \/ /\ t # KThread
           /\ th[t].op \in {"ayn_led_mc_brightness_set", "led_mode_store",
                             "led_mode_show"}

\* One step of ayn_platform_exit: the platform device and the driver are
\* unregistered, which undoes what probe registered through devm, the
\* latest first: the hwmon device, which waits for its callbacks that are
\* running, then (part_003) the LED class device.  part_004 registers its
\* hwmon device with hwmon_device_register_with_info and never unregisters
\* it: nothing is waited for.
ayn_platform_exit(max) ==
    /\ pdev.status \in {"bound", "removing"}
    /\ \/ /\ attached
          /\ CASE revision = REV_DMI ->
                    /\ th[KThread].pc \in {"idle", "done", "fault"}
                    /\ pdev' = [pdev EXCEPT !.status = "removed", !.stage = 0]
                    /\ UNCHANGED <<led_cdev, th, ncalls>>
               [] revision = REV_SENSORS ->
                    /\ Quiescent
                    /\ pdev' = [pdev EXCEPT !.status = "removed", !.stage = 0,
                                            !.hwmon = FALSE]
                    /\ UNCHANGED <<led_cdev, th, ncalls>>
               [] OTHER ->
                    /\ hwmon_idle
                    /\ pdev' = [pdev EXCEPT !.status = "removing",
                                            !.hwmon = FALSE]
                    /\ led_classdev_unregister(max)
          /\ UNCHANGED <<ec, holder, model, board, revision, wlog, busLast>>
       \/ /\ pdev.status = "removing"
          /\ devres_release_all

\* ------------------------------------------------------- initial states

\* The EC after reset: fan mode automatic (1), everything else 0.
ECReset == [r \in Byte |-> IF r = AYN_SENSOR_PWM_FAN_MODE_REG THEN 1 ELSE 0]

\* ayn_led_mc as statically initialised; requested records the level the
\* most recent ayn_led_mc_brightness_set call was given (-1: no call yet).
led_cdev_init ==
    [brightness |-> 0, max_brightness |-> 255, intensity |-> <<0, 0, 0>>,
     requested |-> -1]

\* The driver module of revision rev just loaded on a machine of boards,
\* the EC holding one of ecs: platform_create_bundle is about to call
\* ayn_platform_probe.
InitWith(ecs, boards, revs) ==
    /\ ec \in ecs
    /\ holder = 0
    /\ model = 0
    /\ pdev = pdev_init
    /\ board \in boards
    /\ revision \in revs
    /\ led_cdev = led_cdev_init
    /\ th = [t \in Callers |-> IdleFrame]
    /\ wlog = [r \in Regs |-> -1]
    /\ busLast = 0
    /\ ncalls = 0

\* ---------------------------------------------- Spec: concurrent callers

\* Fan speed bytes used by the concurrent specification.
ECFan == [ECReset EXCEPT ![AYN_SENSOR_PWM_FAN_SPEED_REG] = 11,
                         ![AYN_SENSOR_PWM_FAN_SPEED_REG + 1] = 191]

ReqsEC ==
    {Rq("ayn_platform_read", "fan", "input", 0, 0),
     Rq("ayn_platform_read", "pwm", "input", 0, 0),
     Rq("ayn_platform_write", "pwm", "input", 0, 100),
     Rq("ayn_platform_write", "pwm", "input", 0, 201)}

Init == InitWith({ECFan}, {LokiMax}, {REV_PLATFORM})

Next ==
    \/ ayn_platform_probe(MaxCalls)
    \/ ayn_platform_exit(MaxCalls)
    \/ \E t \in Callers :
          \/ \E rq \in ReqsEC : Call(t, rq, 77, MaxCalls)
          \/ lock_ok(t)
          \/ lock_fail(t)
          \/ ec_read_ok(t)
          \/ \E err \in ECErrors : ec_read_fail(t, err)
          \/ ec_write_ok(t)
          \/ \E err \in ECErrors : ec_write_fail(t, err)
          \/ unlock_ok(t)
          \/ unlock_fail(t)

Spec == Init /\ [][Next]_vars

\* ------------------------------------------------------------- claims

\* Caller t is inside an EC transaction: past a successful acquire of the
\* global lock and before the return of read_from_ec / write_to_ec.
InTransaction(t) == th[t].pc \in {"ec_read", "ec_write", "release"}

\* C1: EC transactions are mutually exclusive.  A caller inside a
\* transaction is the one holder of the global lock, so no two callers are
\* inside one at the same time; and when a caller is about to read a further
\* byte of a multi-byte read, the most recent EC access on the bus was its own
\* (no ec_read or ec_write of another caller between the bytes).
C1_MutualExclusion ==
    /\ \A t \in Callers : InTransaction(t) => holder = t
    /\ \A t, u \in Callers : (InTransaction(t) /\ InTransaction(u)) => t = u
    /\ \A t \in Callers :
          (th[t].pc = "ec_read" /\ th[t].i >= 1) => busLast = t

\* C1 witness: a caller has read the first byte of the 2-byte fan speed read
\* while another caller, wanting to write, waits for the lock.
C1_Witness ==
    \E t, u \in Callers :
        /\ t # u
        /\ th[t].pc = "ec_read" /\ th[t].size = 2 /\ th[t].i = 1
        /\ th[t].reg = AYN_SENSOR_PWM_FAN_SPEED_REG
        /\ th[u].pc = "acquire" /\ th[u].tx = "write"

\* C2 (as claimed): whenever a transaction that acquired the lock has
\* returned, with success or with an I/O error, the caller no longer holds
\* the global lock.
C2_LockReleasedOnEveryExit ==
    \A t \in Callers :
        (th[t].pc = "done" /\ th[t].ntx > 0 /\ th[t].acquired
            /\ th[t].rc \in {0} \cup ECErrors)
        => holder # t

\* C3: a transaction whose lock acquisition failed returned -EBUSY and made
\* no ec_read and no ec_write; a handler that consists of that one
\* transaction made none either, and the handlers that return a value
\* returned -EBUSY.
C3_BusyWithoutIO ==
    \A t \in Callers :
        (th[t].pc = "done" /\ th[t].ntx > 0 /\ ~th[t].acquired)
        => /\ th[t].rc = -EBUSY
           /\ th[t].txio = 0
           /\ th[t].ntx = 1 => (th[t].nread = 0 /\ th[t].nwrite = 0)
           /\ th[t].op # "ayn_led_mc_brightness_set" => th[t].ret = -EBUSY

\* C3 witness: the 2-byte fan speed read returned -EBUSY because the lock was
\* not obtained while another caller was inside a transaction.
C3_Witness ==
    \E t, u \in Callers :
        /\ t # u
        /\ th[t].pc = "done" /\ th[t].ntx > 0 /\ ~th[t].acquired
        /\ th[t].type = "fan" /\ th[t].rc = -EBUSY
        /\ InTransaction(u)

\* ------------------------------------- SpecRead: fan speed and pwm reads

\* High bytes of the fan speed the EC is started with.
FanHighBytes == {0, 1, 11, 255}

\* EC images with fan speed bytes (b at 0x20, h at 0x21) and pwm set point b.
ECRead ==
    {[ECReset EXCEPT ![AYN_SENSOR_PWM_FAN_SPEED_REG] = b,
                     ![AYN_SENSOR_PWM_FAN_SPEED_REG + 1] = h,
                     ![AYN_SENSOR_PWM_FAN_SET_REG] = b] :
        b \in Byte, h \in FanHighBytes}

ReqsRead ==
    {Rq("ayn_platform_read", "fan", "input", 0, 0),
     Rq("ayn_platform_read", "pwm", "input", 0, 0)}

InitRead == InitWith(ECRead, {LokiMax}, {REV_PLATFORM})

NextRead ==
    \/ ayn_platform_probe(MaxSeqCalls)
    \/ ayn_platform_exit(MaxSeqCalls)
    \/ \E rq \in ReqsRead : Call(1, rq, 77, MaxSeqCalls)
    \/ lock_ok(1)
    \/ lock_fail(1)
    \/ ec_read_ok(1)
    \/ \E err \in ECErrors : ec_read_fail(1, err)
    \/ unlock_ok(1)
    \/ unlock_fail(1)

SpecRead == InitRead /\ [][NextRead]_vars

\* Caller t has returned from a successful call of handler op on (type, attr).
Returned(t, op, type, attr) ==
    /\ th[t].pc = "done" /\ th[t].op = op
    /\ th[t].type = type /\ th[t].attr = attr

\* C4 (as claimed): the 2-byte fan speed read returns
\* byte(0x20) + 256 * byte(0x21): byte 0 is the low-order byte.
C4_Byte0LowOrder ==
    \A t \in Callers :
        (Returned(t, "ayn_platform_read", "fan", "input") /\ th[t].ret = 0)
        => th[t].out = ec[AYN_SENSOR_PWM_FAN_SPEED_REG]
                       + 256 * ec[AYN_SENSOR_PWM_FAN_SPEED_REG + 1]

\* C4 (amended): the 2-byte fan speed read returns
\* 256 * byte(0x20) + byte(0x21): the byte read from the lowest address is the
\* high-order byte of the result.
C4_Byte0HighOrder ==
    \A t \in Callers :
        (Returned(t, "ayn_platform_read", "fan", "input") /\ th[t].ret = 0)
        => th[t].out = 256 * ec[AYN_SENSOR_PWM_FAN_SPEED_REG]
                       + ec[AYN_SENSOR_PWM_FAN_SPEED_REG + 1]

\* C4 witness: a successful fan speed read over the bytes 0x0B, 0xFF.
C4_Witness ==
    /\ Returned(1, "ayn_platform_read", "fan", "input") /\ th[1].ret = 0
    /\ th[1].nread = 2
    /\ ec[AYN_SENSOR_PWM_FAN_SPEED_REG] = 11
    /\ ec[AYN_SENSOR_PWM_FAN_SPEED_REG + 1] = 255
    /\ th[1].out = 3071

\* C8 (as claimed): for every EC-native value 0..128 in the pwm set point
\* register, a successful pwm1 read returns the register value shifted left
\* by one, and that is within [0,255].
C8_ReadDutyCycleScaled ==
    \A t \in Callers :
        (Returned(t, "ayn_platform_read", "pwm", "input") /\ th[t].ret = 0
            /\ ec[AYN_SENSOR_PWM_FAN_SET_REG] \in 0..128)
        => (th[t].out = 2 * ec[AYN_SENSOR_PWM_FAN_SET_REG]
            /\ th[t].out \in 0..255)

\* ------------------------------------- SpecPwm: pwm1 written and read back

\* Values offered to the pwm1 write: every value near the ends of the range
\* and around each multiple of 16 in between, odd and even.
PwmInputs ==
    {v \in (0 - 2)..257 : v < 6 \/ v > 249 \/ v % 16 \in {15, 0, 1}}

ReqsPwm ==
    {Rq("ayn_platform_write", "pwm", "input", 0, v) : v \in PwmInputs}
    \cup {Rq("ayn_platform_read", "pwm", "input", 0, 0)}

InitPwm == InitWith({ECReset}, {LokiMax}, {REV_PLATFORM})

NextPwm ==
    \/ ayn_platform_probe(MaxSeqCalls)
    \/ ayn_platform_exit(MaxSeqCalls)
    \/ \E rq \in ReqsPwm : Call(1, rq, 77, MaxSeqCalls)
    \/ lock_ok(1)
    \/ lock_fail(1)
    \/ ec_read_ok(1)
    \/ \E err \in ECErrors : ec_read_fail(1, err)
    \/ ec_write_ok(1)
    \/ \E err \in ECErrors : ec_write_fail(1, err)
    \/ unlock_ok(1)
    \/ unlock_fail(1)

SpecPwm == InitPwm /\ [][NextPwm]_vars

\* C5 (as claimed): a pwm1 read that follows a pwm1 write of v returns v
\* with its low bit cleared (v for even v, v - 1 for odd v).
C5_DutyCycleRoundTrip ==
    \A t \in Callers :
        (Returned(t, "ayn_platform_read", "pwm", "input") /\ th[t].ret = 0
            /\ wlog[AYN_SENSOR_PWM_FAN_SET_REG] \in 0..255)
        => th[t].out = 2 * (wlog[AYN_SENSOR_PWM_FAN_SET_REG] \div 2)

\* A pwm1 write frame.
IsPwmWrite(c) ==
    c.op = "ayn_platform_write" /\ c.type = "pwm" /\ c.attr = "input"

\* C6: the pwm1 write of part_003 accepts exactly 0..255.  A value outside
\* the range has returned -EINVAL with no transaction started (no lock, no
\* register access); a value inside it starts one write_to_ec on register
\* 0x11, returns -EINVAL only if ec_write did, and a successful call has made
\* exactly one ec_write, which put this call's value into 0x11.
C6_PwmWriteRange ==
    \A t \in Callers :
        IsPwmWrite(th[t]) =>
            IF th[t].arg \in 0..255
            THEN /\ th[t].ntx = 1
                 /\ th[t].nwrite <= 1 /\ th[t].nread = 0
                 /\ th[t].pc # "done" =>
                        (th[t].tx = "write"
                         /\ th[t].reg = AYN_SENSOR_PWM_FAN_SET_REG)
                 /\ th[t].pc = "done" =>
                        /\ th[t].ret = -EINVAL => th[t].nfail = 1
                        /\ th[t].ret = 0 =>
                              (th[t].nwrite = 1
                               /\ wlog[AYN_SENSOR_PWM_FAN_SET_REG] = th[t].arg)
            ELSE /\ th[t].pc = "done" /\ th[t].ret = -EINVAL
                 /\ th[t].ntx = 0 /\ th[t].nwrite = 0 /\ th[t].nread = 0
                 /\ ~th[t].acquired

\* C6 witness: both ends of the range were exercised: 255 was written to the
\* register file by a successful call, or 256 was refused.
C6_Witness ==
    /\ IsPwmWrite(th[1]) /\ th[1].pc = "done"
    /\ th[1].arg = 255 /\ th[1].ret = 0 /\ th[1].nwrite = 1

\* ------------------------------------------- SpecTemp: thermal sensors

\* EC images in which the five sensor registers, register 0 and the pwm set
\* point hold b, b+1, ... (mod 256): every register takes every byte value.
ECTemp ==
    {[ECReset EXCEPT ![AYN_SENSOR_BAT_TEMP_REG] = b,
                     ![AYN_SENSOR_MB_TEMP_REG] = (b + 1) % 256,
                     ![AYN_SENSOR_CHARGE_TEMP_REG] = (b + 2) % 256,
                     ![AYN_SENSOR_VCORE_TEMP_REG] = (b + 3) % 256,
                     ![AYN_SENSOR_PROC_TEMP_REG] = (b + 4) % 256,
                     ![0] = (b + 5) % 256,
                     ![AYN_SENSOR_PWM_FAN_SET_REG] = (b + 6) % 256] :
        b \in Byte}

\* The attribute indices 0..4 and the index of the sentinel entry.
ReqsTemp ==
    {Rq(op, NoVal, NoVal, i, 0) :
        op \in {"thermal_sensor_show", "thermal_sensor_label"},
        i \in 0..5}

InitTemp == InitWith(ECTemp, {LokiMax}, {REV_PLATFORM})

NextTemp ==
    \/ ayn_platform_probe(MaxSeqCalls)
    \/ ayn_platform_exit(MaxSeqCalls)
    \/ \E rq \in ReqsTemp : Call(1, rq, 77, MaxSeqCalls)
    \/ lock_ok(1)
    \/ lock_fail(1)
    \/ ec_read_ok(1)
    \/ \E err \in ECErrors : ec_read_fail(1, err)
    \/ unlock_ok(1)
    \/ unlock_fail(1)

SpecTemp == InitTemp /\ [][NextTemp]_vars

\* The register the claim lists for each sensor id.
ListedSensorReg(id) ==
    CASE id = 0 -> 4 [] id = 1 -> 5 [] id = 2 -> 7 [] id = 3 -> 8 [] id = 4 -> 9

\* C9: for sensor ids 0..4 the temperature read is one 1-byte read of the
\* register listed for the sensor, and a successful read yields the raw
\* register byte times 1000, with no register written.
C9_TemperatureMillidegrees ==
    \A t \in Callers :
        (th[t].op = "thermal_sensor_show" /\ th[t].idx \in 0..4) =>
            /\ th[t].ntx = 1 /\ th[t].nwrite = 0
            /\ th[t].pc # "done" =>
                  (th[t].tx = "read" /\ th[t].size = 1
                   /\ th[t].reg = ListedSensorReg(th[t].idx))
            /\ (th[t].pc = "done" /\ th[t].ret > 0) =>
                  (th[t].buf = ec[ListedSensorReg(th[t].idx)] * 1000
                   /\ th[t].nread = 1)
            /\ \A r \in Regs : wlog[r] = -1

\* C9 witness: the CPU core sensor (id 4, register 0x09) read as 255000.
C9_Witness ==
    /\ th[1].op = "thermal_sensor_show" /\ th[1].idx = 4
    /\ th[1].pc = "done" /\ th[1].ret > 0
    /\ ec[AYN_SENSOR_PROC_TEMP_REG] = 255 /\ th[1].buf = 255000

\* ------------------------- SpecSensors: the revision of src/ayn-sensors.c

\* Values offered to pwm1 and the fan curve pwm points.
PwmEdgeInputs == {0 - 1, 0, 100, 254, 255, 256}

\* A number that does not fit an int.
TextTooBig == <<"9", "9", "9", "9", "9", "9", "9", "9", "9", "9", "9", "\n">>

ReqsSensors ==
    {Rq("ayn_platform_write", "pwm", "input", 0, v) : v \in PwmEdgeInputs}
    \cup {RqStore("pwm_curve_store", i, echo(v)) :
            i \in 0..4, v \in PwmEdgeInputs}
    \cup {RqStore("pwm_curve_store", i, TextTooBig) : i \in 0..4}

InitSensors == InitWith({ECReset}, {LokiMax}, {REV_SENSORS})

NextSensors ==
    \/ ayn_platform_probe(MaxSeqCalls)
    \/ ayn_platform_exit(MaxSeqCalls)
    \/ \E rq \in ReqsSensors : Call(1, rq, 77, MaxSeqCalls)
    \/ lock_ok(1)
    \/ lock_fail(1)
    \/ ec_write_ok(1)
    \/ \E err \in ECErrors : ec_write_fail(1, err)
    \/ unlock_ok(1)
    \/ unlock_fail(1)

SpecSensors == InitSensors /\ [][NextSensors]_vars

\* A write to pwm1 or to one of the five pwm1_auto_pointN_pwm attributes.
IsPwmValueWrite(c) ==
    \/ IsPwmWrite(c)
    \/ c.op = "pwm_curve_store" /\ c.idx \in 0..4

\* The number given to the write on frame c lies in lo..hi; for a store
\* handler it is the number its text denotes.
InRange(c, lo, hi) == c.kret = 0 /\ c.arg \in lo..hi

\* The number given to the write on frame c lies outside lo..hi: it was
\* parsed and is outside, or it is too large for kstrtoint.
OutOfRange(c, lo, hi) ==
    \/ c.kret = 0 /\ c.arg \notin lo..hi
    \/ c.kret = -ERANGE

\* C7 (as claimed): in the revision of src/ayn-sensors.c, pwm1 and every
\* pwm1_auto_pointN_pwm accept exactly [0,254]: a value outside it (255
\* included) has returned -EINVAL with no transaction started and no register
\* access.
C7_SensorsPwmRange254 ==
    \A t \in Callers :
        (revision = REV_SENSORS /\ IsPwmValueWrite(th[t])
            /\ OutOfRange(th[t], 0, 254))
        => /\ th[t].pc = "done" /\ th[t].ret = -EINVAL
           /\ th[t].ntx = 0 /\ th[t].nwrite = 0 /\ th[t].nread = 0

\* C7 (amended): in the revision of src/ayn-sensors.c, pwm1 and every
\* pwm1_auto_pointN_pwm accept exactly [0,254]: a value outside it (255
\* included) has been refused with no transaction started and no register
\* access, with -EINVAL, except that a pwm1_auto_pointN_pwm write of a number
\* that does not fit an int returns -ERANGE; a value inside it starts one
\* write_to_ec and returns -EINVAL only if ec_write did.
C7_SensorsPwmRefused ==
    \A t \in Callers :
        (revision = REV_SENSORS /\ IsPwmValueWrite(th[t])) =>
            /\ InRange(th[t], 0, 254) =>
                  /\ th[t].ntx = 1
                  /\ (th[t].pc = "done" /\ th[t].ret = -EINVAL) =>
                        th[t].nfail = 1
            /\ OutOfRange(th[t], 0, 254) =>
                  /\ th[t].pc = "done"
                  /\ th[t].ret = (IF th[t].kret = 0 THEN -EINVAL ELSE -ERANGE)
                  /\ th[t].kret # 0 => th[t].op = "pwm_curve_store"
                  /\ th[t].ntx = 0 /\ th[t].nwrite = 0 /\ th[t].nread = 0

\* C7 witness: after pwm1 accepted 254, a fan curve pwm point refused 255.
C7_Witness ==
    /\ revision = REV_SENSORS
    /\ wlog[AYN_SENSOR_PWM_FAN_SET_REG] = 254
    /\ th[1].op = "pwm_curve_store" /\ th[1].idx \in 0..4
    /\ th[1].arg = 255 /\ th[1].pc = "done" /\ th[1].ret = -EINVAL

\* ------------------------------------------------ SpecMode: fan mode

\* Values offered to the pwm1_enable write.
ModeInputs == {0 - 1, 0, 1, 2, 3, 170, 256, 257}

\* EC images with the fan mode register holding 0, 1 or 2.
ECMode == {[ECReset EXCEPT ![AYN_SENSOR_PWM_FAN_MODE_REG] = h] : h \in 0..2}

ReqsMode ==
    {Rq("ayn_platform_write", "pwm", "mode", 0, v) : v \in ModeInputs}
    \cup {Rq("ayn_platform_read", "pwm", "mode", 0, 0)}

InitMode == InitWith(ECMode, {LokiMax}, {REV_PLATFORM})

NextMode ==
    \/ ayn_platform_probe(MaxSeqCalls)
    \/ ayn_platform_exit(MaxSeqCalls)
    \/ \E rq \in ReqsMode : Call(1, rq, 77, MaxSeqCalls)
    \/ lock_ok(1)
    \/ lock_fail(1)
    \/ ec_read_ok(1)
    \/ \E err \in ECErrors : ec_read_fail(1, err)
    \/ ec_write_ok(1)
    \/ \E err \in ECErrors : ec_write_fail(1, err)
    \/ unlock_ok(1)
    \/ unlock_fail(1)

SpecMode == InitMode /\ [][NextMode]_vars

\* The table of the claim: boundary code -> hardware code.
ModeTable(b) == CASE b = 0 -> 1 [] b = 1 -> 0 [] b = 2 -> 2

\* C11: the fan mode register stays in {0,1,2}; once a mode write has
\* reached the register it holds the table's hardware code for that write's
\* boundary code; and a successful mode read returns the boundary code of the
\* most recent mode write.
C11_ModeRoundTrip ==
    /\ ec[AYN_SENSOR_PWM_FAN_MODE_REG] \in 0..2
    /\ wlog[AYN_SENSOR_PWM_FAN_MODE_REG] # -1 =>
          /\ wlog[AYN_SENSOR_PWM_FAN_MODE_REG] \in 0..2
          /\ ec[AYN_SENSOR_PWM_FAN_MODE_REG]
                = ModeTable(wlog[AYN_SENSOR_PWM_FAN_MODE_REG])
    /\ \A t \in Callers :
          (Returned(t, "ayn_platform_read", "pwm", "mode") /\ th[t].ret = 0
              /\ wlog[AYN_SENSOR_PWM_FAN_MODE_REG] # -1)
          => th[t].out = wlog[AYN_SENSOR_PWM_FAN_MODE_REG]

\* C11 witness: Auto (0) written as hardware 1 and read back as 0.
C11_Witness ==
    /\ Returned(1, "ayn_platform_read", "pwm", "mode") /\ th[1].ret = 0
    /\ wlog[AYN_SENSOR_PWM_FAN_MODE_REG] = 0
    /\ ec[AYN_SENSOR_PWM_FAN_MODE_REG] = 1
    /\ th[1].out = 0

\* A pwm1_enable write frame.
IsModeWrite(c) ==
    c.op = "ayn_platform_write" /\ c.type = "pwm" /\ c.attr = "mode"

\* C12: a mode write with a value other than 0, 1, 2 has returned -EINVAL
\* without starting a transaction: no lock acquisition, no register access,
\* so no register changed.
C12_ModeWriteInvalid ==
    \A t \in Callers :
        (IsModeWrite(th[t]) /\ th[t].arg \notin 0..2)
        => /\ th[t].pc = "done" /\ th[t].ret = -EINVAL
           /\ th[t].ntx = 0 /\ ~th[t].acquired
           /\ th[t].nread = 0 /\ th[t].nwrite = 0

\* C12 witness: after UserCurve (2) was written, a mode write of 3 was
\* refused and the register still holds 2.
C12_Witness ==
    /\ IsModeWrite(th[1]) /\ th[1].arg = 3
    /\ th[1].pc = "done" /\ th[1].ret = -EINVAL
    /\ wlog[AYN_SENSOR_PWM_FAN_MODE_REG] = 2
    /\ ec[AYN_SENSOR_PWM_FAN_MODE_REG] = 2

\* ------------------------------------------------ SpecCurve: fan curve

\* EC images for the fan curve: every curve register holds its own address,
\* so that a write landing in the wrong register shows.
ECCurve ==
    {[r \in Byte |->
        IF r \in AYN_SENSOR_PWM_FAN_SPEED_1_REG..AYN_SENSOR_PWM_FAN_TEMP_5_REG
        THEN r ELSE ECReset[r]]}

\* The attribute indices offered: the ten fields and one on either side.
CurveIndices == (0 - 1)..10

\* Values offered to a store on index i: the whole accepted range of the
\* field and two values on either side of it.
CurveInputs(i) ==
    IF i \in 0..4 THEN (0 - 2)..257
    ELSE IF i \in 5..9 THEN (0 - 2)..102
    ELSE {0, 50, 300}

\* Texts that are not "echo v": no newline, hexadecimal, octal, a sign,
\* not a number, nothing, a trailing blank, and numbers too large for an int
\* and for 64 bits.
CurveTexts ==
    {<<"5", "0">>, <<"0", "x", "3", "2", "\n">>, <<"0", "6", "2", "\n">>,
     <<"+", "5", "0", "\n">>, <<"7">>, <<"a", "b", "c", "\n">>, <<>>,
     <<"5", "0", " ", "\n">>, TextTooBig,
     <<"2", "1", "4", "7", "4", "8", "3", "6", "4", "8", "\n">>,
     <<"-", "2", "1", "4", "7", "4", "8", "3", "6", "4", "9", "\n">>,
     <<"9", "9", "9", "9", "9", "9", "9", "9", "9", "9", "9", "9", "9", "9",
       "9", "9", "9", "9", "9", "9", "9", "x">>}

ReqsCurveStore ==
    {RqStore("pwm_curve_store", x[1], echo(x[2]))
        : x \in {y \in CurveIndices \X ((0 - 2)..300) : y[2] \in CurveInputs(y[1])}}
    \cup {RqStore("pwm_curve_store", i, txt) : i \in {0, 5, 10}, txt \in CurveTexts}

ReqsCurveShow ==
    {Rq("pwm_curve_show", NoVal, NoVal, i, 0) : i \in CurveIndices}

InitCurve == InitWith(ECCurve, {LokiMax}, {REV_PLATFORM})

\* One store, then shows of the field the previous call was about.
NextCurve ==
    \/ ayn_platform_probe(MaxSeqCalls)
    \/ ayn_platform_exit(MaxSeqCalls)
    \/ ncalls = 0 /\ \E rq \in ReqsCurveStore : Call(1, rq, 77, MaxSeqCalls)
    \/ ncalls > 0 /\ \E rq \in ReqsCurveShow :
                        rq.idx = th[1].idx /\ Call(1, rq, 77, MaxSeqCalls)
    \/ lock_ok(1)
    \/ lock_fail(1)
    \/ ec_read_ok(1)
    \/ \E err \in ECErrors : ec_read_fail(1, err)
    \/ ec_write_ok(1)
    \/ \E err \in ECErrors : ec_write_fail(1, err)
    \/ unlock_ok(1)
    \/ unlock_fail(1)

SpecCurve == InitCurve /\ [][NextCurve]_vars

\* The registers of the claims: speed slot i at 0x12 + 2i, temperature slot
\* i at 0x13 + 2i.
SpeedSlotReg(i) == 18 + 2 * i
TempSlotReg(i) == 19 + 2 * i

\* Caller t has returned successfully from pwm_curve_show on index k.
Shown(t, k) ==
    /\ th[t].op = "pwm_curve_show" /\ th[t].idx = k
    /\ th[t].pc = "done" /\ th[t].ret > 0

\* C13: a successful read of pwm1_auto_point(i+1)_temp that follows a write
\* of t in [0,100] to the same field returns t, and the register holds t.
C13_CurveTempRoundTrip ==
    \A i \in 0..4 :
        wlog[TempSlotReg(i)] \in 0..100 =>
            /\ ec[TempSlotReg(i)] = wlog[TempSlotReg(i)]
            /\ \A t \in Callers :
                  Shown(t, 5 + i) => th[t].buf = wlog[TempSlotReg(i)]

\* C13 witness: 100 written to pwm1_auto_point5_temp and read back.
C13_Witness ==
    /\ Shown(1, 9) /\ wlog[TempSlotReg(4)] = 100
    /\ th[1].buf = 100 /\ th[1].nread = 1

\* C14: a write of an accepted v to pwm1_auto_point(i+1)_pwm stores v >> 1
\* in the slot's speed register, and a following successful read returns v
\* with its low bit cleared.
C14_CurvePwmScaling ==
    \A i \in 0..4 :
        wlog[SpeedSlotReg(i)] # -1 =>
            /\ wlog[SpeedSlotReg(i)] \in 0..255
            /\ ec[SpeedSlotReg(i)] = wlog[SpeedSlotReg(i)] \div 2
            /\ \A t \in Callers :
                  Shown(t, i) =>
                     th[t].buf = wlog[SpeedSlotReg(i)] - (wlog[SpeedSlotReg(i)] % 2)

\* C14 witness: 255 written to pwm1_auto_point5_pwm is stored as 127 and
\* read back as 254.
C14_Witness ==
    /\ Shown(1, 4) /\ wlog[SpeedSlotReg(4)] = 255
    /\ ec[SpeedSlotReg(4)] = 127 /\ th[1].buf = 254

\* The store on this frame was given a number, and it is one the validation
\* must refuse.
CurveStoreInvalid(c) ==
    /\ c.op = "pwm_curve_store"
    /\ \/ c.idx \notin 0..9 /\ c.kret \in {0, -ERANGE}
       \/ c.idx \in 5..9 /\ OutOfRange(c, 0, 100)
       \/ c.idx \in 0..4 /\ OutOfRange(c, 0, 255)

\* C15 (as claimed): a fan curve store with a temperature outside [0,100], a
\* pwm value outside [0,255] or an index outside 0..9 has returned -EINVAL
\* with no transaction started, and every register is as it was.
C15_CurveStoreValidated ==
    \A t \in Callers :
        CurveStoreInvalid(th[t]) =>
            /\ th[t].pc = "done" /\ th[t].ret = -EINVAL
            /\ th[t].ntx = 0 /\ th[t].nread = 0 /\ th[t].nwrite = 0
            /\ ec \in ECCurve

\* C15 (amended): a fan curve store with a temperature outside [0,100], a
\* pwm value outside [0,255] or an index outside 0..9 has been refused with
\* no transaction started, and every register is as it was; the error is
\* -EINVAL, except that a number that does not fit an int gets -ERANGE,
\* whatever the index.
C15_CurveStoreRefused ==
    \A t \in Callers :
        CurveStoreInvalid(th[t]) =>
            /\ th[t].pc = "done"
            /\ th[t].ret = (IF th[t].kret = 0 THEN -EINVAL ELSE -ERANGE)
            /\ th[t].ntx = 0 /\ th[t].nread = 0 /\ th[t].nwrite = 0
            /\ ec \in ECCurve

\* C15 witness: 101 offered to pwm1_auto_point3_temp was refused.
C15_Witness ==
    /\ th[1].op = "pwm_curve_store" /\ th[1].idx = 7 /\ th[1].arg = 101
    /\ th[1].pc = "done" /\ th[1].ret = -EINVAL /\ th[1].ntx = 0

\* The register of field k as the claim lists it.
CurveFieldReg(k) == IF k \in 0..4 THEN SpeedSlotReg(k) ELSE TempSlotReg(k - 5)

\* C16: the ten fan curve indices select ten distinct registers, and a step
\* that changes an EC register changes only the register of the field some
\* caller is storing to: the other curve registers, fan mode, pwm set point
\* and the RGB registers stay as they are.
C16_CurveFieldsIndependent ==
    [][/\ Cardinality({pwm_curve_reg(k) : k \in 0..9}) = 10
       /\ \A r \in Byte :
             ec'[r] # ec[r] =>
                \E t \in Callers :
                    /\ th[t].op = "pwm_curve_store" /\ th[t].idx \in 0..9
                    /\ r = CurveFieldReg(th[t].idx)]_vars

\* C16 witness: 55 stored to pwm1_auto_point5_temp (register 0x1B) with every
\* other register as it was.
C16_Witness ==
    /\ th[1].op = "pwm_curve_store" /\ th[1].idx = 9 /\ th[1].arg = 55
    /\ th[1].pc = "done" /\ th[1].ret > 0
    /\ ec[27] = 55
    /\ \A r \in Byte \ {27} : \A e \in ECCurve : ec[r] = e[r]

\* ------------------------------------------------ SpecLed: RGB LED

\* Contents of the RGB mode register the EC is started with: breathing, the
\* two user defined values and one value that is none of them.
LedModes ==
    {AYN_LED_MODE_BREATH, AYN_LED_MODE_WRITE, AYN_LED_MODE_WRITE_ENABLED, 1}

\* Intensities of the red, green and blue sub-LEDs (set through the
\* multicolor class before the brightness is).
LedIntensities == {<<255, 128, 0>>, <<3, 200, 77>>}

\* Brightness levels offered to ayn_led_mc_brightness_set.
LedLevels == {0, 100, 255}

\* EC images for the LED: the mode register as chosen, the channel
\* registers holding 7, 8, 9.
ECLed(modes) ==
    {[ECReset EXCEPT ![AYN_LED_MODE_REG] = md, ![AYN_LED_MC_R_REG] = 7,
                     ![AYN_LED_MC_G_REG] = 8, ![AYN_LED_MC_B_REG] = 9] :
        md \in modes}

\* The driver just loaded with the LED intensities already chosen.
InitLedWith(modes, intensities) ==
    /\ ec \in ECLed(modes)
    /\ holder = 0
    /\ model = 0
    /\ pdev = pdev_init
    /\ board = LokiMax
    /\ revision = REV_PLATFORM
    /\ led_cdev \in {[led_cdev_init EXCEPT !.intensity = x] : x \in intensities}
    /\ th = [t \in Callers |-> IdleFrame]
    /\ wlog = [r \in Regs |-> -1]
    /\ busLast = 0
    /\ ncalls = 0

InitLed == InitLedWith(LedModes, LedIntensities)

NextLed ==
    \/ ayn_platform_probe(MaxSeqCalls)
    \/ ayn_platform_exit(MaxSeqCalls)
    \/ \E b \in LedLevels : ayn_led_mc_brightness_set(1, b, 77, MaxSeqCalls)
    \/ ayn_led_mc_brightness_get(1, MaxSeqCalls)
    \/ lock_ok(1)
    \/ lock_fail(1)
    \/ ec_read_ok(1)
    \/ \E err \in ECErrors : ec_read_fail(1, err)
    \/ ec_write_ok(1)
    \/ \E err \in ECErrors : ec_write_fail(1, err)
    \/ unlock_ok(1)
    \/ unlock_fail(1)

SpecLed == InitLed /\ [][NextLed]_vars

\* A frame of ayn_led_mc_brightness_set.
IsLedSet(c) == c.op = "ayn_led_mc_brightness_set"

\* C17: while the RGB mode register holds neither 0xAA nor 0x55, a
\* brightness set makes its one mode read and no register write: the R, G, B
\* and mode registers stay as they were, and it reports no error.
C17_NoWriteOutsideManual ==
    \A t \in Callers :
        (IsLedSet(th[t])
            /\ ec[AYN_LED_MODE_REG] \notin {AYN_LED_MODE_WRITE,
                                            AYN_LED_MODE_WRITE_ENABLED})
        => /\ th[t].ntx = 1 /\ th[t].nwrite = 0 /\ th[t].tx # "write"
           /\ th[t].pc = "done" => th[t].ret = 0
           /\ ec \in ECLed(LedModes)

\* C17 witness: brightness 255 set while the LED is breathing: the mode was
\* read and nothing was written.
C17_Witness ==
    /\ IsLedSet(th[1]) /\ th[1].pc = "done" /\ th[1].arg = 255
    /\ th[1].nread = 1 /\ th[1].rc = 0 /\ th[1].out = AYN_LED_MODE_BREATH
    /\ ec[AYN_LED_MODE_REG] = AYN_LED_MODE_BREATH /\ th[1].nwrite = 0

\* C19: a brightness set issues its transactions in the order: read of the
\* mode register, write of red, of green, of blue, then the write of 0xAA to
\* the mode register; in user defined mode all five are issued, and after a
\* successful last write the mode register holds 0xAA.
C19_LedWriteOrder ==
    \A t \in Callers :
        IsLedSet(th[t]) =>
            /\ th[t].ntx \in 1..5
            /\ th[t].pc # "done" =>
                  /\ th[t].ntx = 1 =>
                        (th[t].tx = "read" /\ th[t].reg = AYN_LED_MODE_REG)
                  /\ th[t].ntx = 2 =>
                        (th[t].tx = "write" /\ th[t].reg = AYN_LED_MC_R_REG)
                  /\ th[t].ntx = 3 =>
                        (th[t].tx = "write" /\ th[t].reg = AYN_LED_MC_G_REG)
                  /\ th[t].ntx = 4 =>
                        (th[t].tx = "write" /\ th[t].reg = AYN_LED_MC_B_REG)
                  /\ th[t].ntx = 5 =>
                        (th[t].tx = "write" /\ th[t].reg = AYN_LED_MODE_REG
                         /\ th[t].wval = AYN_LED_MODE_WRITE)
            /\ th[t].pc = "done" =>
                  /\ th[t].ntx \in {1, 5}
                  /\ (th[t].ntx = 5 /\ th[t].rc = 0) =>
                        ec[AYN_LED_MODE_REG] = AYN_LED_MODE_WRITE

\* C19 witness: a brightness set that read 0x55 from the mode register made
\* its four writes and left 0xAA in it.
C19_Witness ==
    /\ IsLedSet(th[1]) /\ th[1].pc = "done" /\ th[1].ntx = 5
    /\ th[1].out = AYN_LED_MODE_WRITE_ENABLED /\ th[1].nwrite = 4
    /\ th[1].rc = 0 /\ ec[AYN_LED_MODE_REG] = AYN_LED_MODE_WRITE

\* C20: ayn_led_mc_brightness_get makes no EC transaction and returns the
\* level given to the most recent ayn_led_mc_brightness_set, whatever that
\* call wrote.
C20_BrightnessGetReturnsLastSet ==
    \A t \in Callers :
        th[t].op = "ayn_led_mc_brightness_get" =>
            /\ th[t].pc = "done"
            /\ th[t].ntx = 0 /\ th[t].nread = 0 /\ th[t].nwrite = 0
            /\ led_cdev.requested # -1 =>
                  (th[t].ret = led_cdev.requested
                   /\ th[t].out = led_cdev.requested)

\* C20 witness: 255 is returned after a set of 255 that wrote nothing, the
\* LED being in breathing mode.
C20_Witness ==
    /\ th[1].op = "ayn_led_mc_brightness_get" /\ th[1].pc = "done"
    /\ led_cdev.requested = 255 /\ th[1].ret = 255
    /\ ec \in ECLed({AYN_LED_MODE_BREATH})

\* ------------------------------- SpecLedNum: the channel values written

\* Levels and intensities for the channel arithmetic: the ends of the range,
\* its middle, and values whose products do not divide by 255.
LedNumLevels == {0, 1, 2, 64, 127, 128, 129, 200, 254, 255}

LedNumIntensities ==
    {<<255, 128, 0>>, <<0, 0, 0>>, <<255, 255, 255>>, <<1, 2, 3>>,
     <<254, 127, 1>>, <<3, 200, 77>>, <<17, 85, 170>>, <<129, 64, 253>>}

InitLedNum ==
    InitLedWith({AYN_LED_MODE_WRITE, AYN_LED_MODE_WRITE_ENABLED},
                LedNumIntensities)

NextLedNum ==
    \/ ayn_platform_probe(MaxLedNumCalls)
    \/ ayn_platform_exit(MaxLedNumCalls)
    \/ \E b \in LedNumLevels :
          ayn_led_mc_brightness_set(1, b, 77, MaxLedNumCalls)
    \/ lock_ok(1)
    \/ lock_fail(1)
    \/ ec_read_ok(1)
    \/ \E err \in ECErrors : ec_read_fail(1, err)
    \/ ec_write_ok(1)
    \/ \E err \in ECErrors : ec_write_fail(1, err)
    \/ unlock_ok(1)
    \/ unlock_fail(1)

SpecLedNum == InitLedNum /\ [][NextLedNum]_vars

\* floor(level * intensity / 255)
LedEffective(level, intensity) == (level * intensity) \div 255

\* The brightness set on frame c has returned after four ec_write calls,
\* none of which failed.
LedSetWroteAll(c) ==
    IsLedSet(c) /\ c.pc = "done" /\ c.nwrite = 4 /\ c.nfail = 0

\* C18: in user defined mode the value a brightness set hands to write_to_ec
\* for the R, G and B register is floor(level * intensity / 255) of that
\* channel, a value in [0,255]; a set whose four register writes all went
\* through leaves these values in the three registers, so level 255 leaves
\* the intensities and level 0 leaves (0,0,0).
C18_ChannelValues ==
    \A t \in Callers :
        IsLedSet(th[t]) =>
            /\ \A k \in 1..3 :
                  (th[t].tx = "write" /\ th[t].reg = 175 + k) =>
                     /\ th[t].wval = LedEffective(th[t].arg, led_cdev.intensity[k])
                     /\ th[t].wval \in 0..255
            /\ LedSetWroteAll(th[t]) =>
                  /\ \A k \in 1..3 :
                        ec[175 + k] = LedEffective(th[t].arg, led_cdev.intensity[k])
                  /\ th[t].arg = 255 =>
                        \A k \in 1..3 : ec[175 + k] = led_cdev.intensity[k]
                  /\ th[t].arg = 0 => \A k \in 1..3 : ec[175 + k] = 0

\* C18 witness: level 255 with intensities (255,128,0) left 255, 128, 0 in
\* the R, G, B registers.
C18_Witness ==
    /\ LedSetWroteAll(th[1]) /\ th[1].arg = 255
    /\ led_cdev.intensity = <<255, 128, 0>>
    /\ ec[AYN_LED_MC_R_REG] = 255 /\ ec[AYN_LED_MC_G_REG] = 128
    /\ ec[AYN_LED_MC_B_REG] = 0

\* ------------------------------------------------ SpecLedMode: led_mode

\* Values offered to the led_mode attribute.
LedModeInputs == {0 - 1, 0, 1, 2}

\* What the local val of led_mode_show holds when the handler is entered:
\* "int val;" has no initialiser, so it is whatever the stack slot held, any
\* value of the type int.
LedGarbage == (0 - 2147483647 - 1)..2147483647

\* One number for each class of LedValClass: whatever int v the stack slot
\* holds, LedValClass(v) is one of these and led_mode_show entered with v
\* does what it does entered with LedValClass(v).
LedValClasses ==
    {v \in {0, 1, 2} \cup {Pow10(n) : n \in 1..9}
              \cup {0 - Pow10(n) : n \in 0..9} :
        v \in LedGarbage}

\* "echo v" for each value, "1" without a newline, and two texts kstrtoint
\* rejects.
ReqsLedModeStore ==
    {RqStore("led_mode_store", 0, echo(v)) : v \in LedModeInputs}
    \cup {RqStore("led_mode_store", 0, txt) :
            txt \in {<<"1">>, <<"o", "n", "\n">>, TextTooBig}}

ReqsLedModeShow == {Rq("led_mode_show", NoVal, NoVal, 0, 0)}

\* The RGB mode register may hold any byte.
InitLedMode == InitLedWith(Byte, {<<0, 0, 0>>})

NextLedMode ==
    \/ ayn_platform_probe(MaxSeqCalls)
    \/ ayn_platform_exit(MaxSeqCalls)
    \/ \E rq \in ReqsLedModeStore : Call(1, rq, 77, MaxSeqCalls)
    \/ \E rq \in ReqsLedModeShow, p \in LedValClasses :
          Call(1, rq, p, MaxSeqCalls)
    \/ lock_ok(1)
    \/ lock_fail(1)
    \/ ec_read_ok(1)
    \/ \E err \in ECErrors : ec_read_fail(1, err)
    \/ ec_write_ok(1)
    \/ \E err \in ECErrors : ec_write_fail(1, err)
    \/ unlock_ok(1)
    \/ unlock_fail(1)

SpecLedMode == InitLedMode /\ [][NextLedMode]_vars

\* Caller t has returned successfully from led_mode_show.
LedModeShown(t) ==
    th[t].op = "led_mode_show" /\ th[t].pc = "done" /\ th[t].ret > 0

\* C21: a led_mode write of 0 stores 0x00 and a write of 1 stores 0xAA; a
\* successful led_mode read returns 0 for 0x00 and 1 for 0xAA and 0x55; so a
\* read that follows a write of m in {0,1} returns m.
C21_LedModeMapping ==
    /\ wlog[AYN_LED_MODE_REG] = 0 => ec[AYN_LED_MODE_REG] = 0
    /\ wlog[AYN_LED_MODE_REG] = 1 => ec[AYN_LED_MODE_REG] = 170
    /\ \A t \in Callers :
          LedModeShown(t) =>
             /\ ec[AYN_LED_MODE_REG] = 0 => th[t].buf = 0
             /\ ec[AYN_LED_MODE_REG] \in {170, 85} => th[t].buf = 1
             /\ wlog[AYN_LED_MODE_REG] \in {0, 1} =>
                   th[t].buf = wlog[AYN_LED_MODE_REG]

\* C21 witness: Manual (1) written as 0xAA and read back as 1.
C21_Witness ==
    /\ LedModeShown(1) /\ wlog[AYN_LED_MODE_REG] = 1
    /\ ec[AYN_LED_MODE_REG] = 170 /\ th[1].buf = 1

\* C30 (as claimed): a successful led_mode read returns 0 or 1 whatever byte
\* the RGB mode register holds.
C30_LedModeReadDefined ==
    \A t \in Callers :
        LedModeShown(t) => th[t].text # "(int)" /\ th[t].buf \in {0, 1}

\* --------------------------- SpecErr: every operation, failures included

\* One request per consumer-facing operation of the hwmon and sysfs
\* attributes.
ReqsErrRead ==
    {Rq("ayn_platform_read", "fan", "input", 0, 0),
     Rq("ayn_platform_read", "pwm", "input", 0, 0),
     Rq("ayn_platform_read", "pwm", "mode", 0, 0)}

ReqsErrOther ==
    {Rq("ayn_platform_write", "pwm", "input", 0, 100),
     Rq("ayn_platform_write", "pwm", "mode", 0, 2),
     RqStore("pwm_curve_store", 0, echo(200)),
     RqStore("pwm_curve_store", 5, echo(50)),
     Rq("pwm_curve_show", NoVal, NoVal, 0, 0),
     Rq("thermal_sensor_show", NoVal, NoVal, 0, 0),
     RqStore("led_mode_store", 0, echo(1)),
     Rq("led_mode_show", NoVal, NoVal, 0, 0)}

\* What the caller's long val holds before ayn_platform_read is called.
PriorValues == {0, 1, 77}

\* The fan turning at 3007 RPM, battery at 40 degrees, the LED in user
\* defined mode.
ECErr ==
    {[e EXCEPT ![AYN_SENSOR_PWM_FAN_SPEED_REG] = 11,
               ![AYN_SENSOR_PWM_FAN_SPEED_REG + 1] = 191,
               ![AYN_SENSOR_BAT_TEMP_REG] = 40] :
        e \in ECLed({AYN_LED_MODE_WRITE})}

InitErr ==
    /\ ec \in ECErr
    /\ holder = 0
    /\ model = 0
    /\ pdev = pdev_init
    /\ board = LokiMax
    /\ revision = REV_PLATFORM
    /\ led_cdev = [led_cdev_init EXCEPT !.intensity = <<255, 128, 0>>]
    /\ th = [t \in Callers |-> IdleFrame]
    /\ wlog = [r \in Regs |-> -1]
    /\ busLast = 0
    /\ ncalls = 0

NextErr ==
    \/ ayn_platform_probe(MaxSeqCalls)
    \/ ayn_platform_exit(MaxSeqCalls)
    \/ \E rq \in ReqsErrRead, p \in PriorValues : Call(1, rq, p, MaxSeqCalls)
    \/ \E rq \in ReqsErrOther : Call(1, rq, 77, MaxSeqCalls)
    \/ \E b \in LedLevels : ayn_led_mc_brightness_set(1, b, 77, MaxSeqCalls)
    \/ lock_ok(1)
    \/ lock_fail(1)
    \/ ec_read_ok(1)
    \/ \E err \in ECErrors : ec_read_fail(1, err)
    \/ ec_write_ok(1)
    \/ \E err \in ECErrors : ec_write_fail(1, err)
    \/ unlock_ok(1)
    \/ unlock_fail(1)

SpecErr == InitErr /\ [][NextErr]_vars

\* C22 (as claimed): an operation in which an ec_read or ec_write failed
\* reports a failure to its caller.
C22_IoFailurePropagated ==
    \A t \in Callers :
        (th[t].pc = "done" /\ th[t].nfail > 0) => th[t].ret < 0

\* C23 (as claimed): when ayn_platform_read returns an error, the caller's
\* value holds what it held before the call.
C23_FailedReadLeavesValue ==
    \A t \in Callers :
        (th[t].op = "ayn_platform_read" /\ th[t].pc = "done" /\ th[t].ret < 0)
        => th[t].out = th[t].prior

\* The handlers that make exactly one write_to_ec call.
IsSingleWrite(c) ==
    c.op \in {"ayn_platform_write", "pwm_curve_store", "led_mode_store"}

\* C29 (as claimed): when write_to_ec has returned an error, the register
\* the call wrote to last holds what it held before the call.
C29_WriteErrorLeavesRegister ==
    \A t \in Callers :
        (IsSingleWrite(th[t]) /\ th[t].pc = "done" /\ th[t].ntx = 1
            /\ th[t].rc # 0 /\ th[t].lastreg # -1)
        => ec[th[t].lastreg] = th[t].lastold

\* ------------------------------------ SpecDispatch: the hwmon callbacks

\* Sensor types and attributes the hwmon core may pass.
HwmonTypes == {"fan", "pwm", "temp", "in"}
HwmonAttrs == {"input", "mode", "enable", "label"}

ReqsDispatch ==
    {Rq(op, ty, at, 0, 1) :
        op \in {"ayn_platform_read", "ayn_platform_write"},
        ty \in HwmonTypes, at \in HwmonAttrs}
    \cup {Rq("ayn_ec_hwmon_is_visible", ty, at, 0, 0) :
            ty \in HwmonTypes, at \in HwmonAttrs}

InitDispatch == InitWith({ECFan}, {LokiMax}, {REV_PLATFORM})

NextDispatch ==
    \/ ayn_platform_probe(MaxSeqCalls)
    \/ ayn_platform_exit(MaxSeqCalls)
    \/ \E rq \in ReqsDispatch : Call(1, rq, 77, MaxSeqCalls)
    \/ lock_ok(1)
    \/ lock_fail(1)
    \/ ec_read_ok(1)
    \/ \E err \in ECErrors : ec_read_fail(1, err)
    \/ ec_write_ok(1)
    \/ \E err \in ECErrors : ec_write_fail(1, err)
    \/ unlock_ok(1)
    \/ unlock_fail(1)

SpecDispatch == InitDispatch /\ [][NextDispatch]_vars

\* The combinations the claim lists as implemented.
ReadSupported(c) ==
    \/ c.type = "fan" /\ c.attr = "input"
    \/ c.type = "pwm" /\ c.attr \in {"input", "mode"}

WriteSupported(c) == c.type = "pwm" /\ c.attr \in {"input", "mode"}

\* The call on this frame has returned -EOPNOTSUPP without a transaction.
Unsupported(c) ==
    /\ c.pc = "done" /\ c.ret = -EOPNOTSUPP
    /\ c.ntx = 0 /\ c.nread = 0 /\ c.nwrite = 0

\* C24: fan attributes are visible read-only (0444) and pwm attributes
\* read-write (0644); ayn_platform_read and ayn_platform_write return
\* -EOPNOTSUPP with no EC transaction for every combination other than the
\* implemented ones, and start a transaction for the implemented ones.
C24_DispatchPermissions ==
    \A t \in Callers :
        /\ th[t].op = "ayn_ec_hwmon_is_visible" =>
              /\ th[t].pc = "done" /\ th[t].ntx = 0
              /\ th[t].type = "fan" => th[t].text = "0444"
              /\ th[t].type = "pwm" => th[t].text = "0644"
        /\ th[t].op = "ayn_platform_read" =>
              IF ReadSupported(th[t])
              THEN th[t].ntx = 1 /\ th[t].ret # -EOPNOTSUPP
              ELSE Unsupported(th[t])
        /\ th[t].op = "ayn_platform_write" =>
              IF WriteSupported(th[t])
              THEN th[t].ntx = 1 /\ th[t].ret # -EOPNOTSUPP
              ELSE Unsupported(th[t])

\* C24 witness: a write to a fan attribute was refused as unsupported after
\* the fan type was reported read-only.
C24_Witness ==
    /\ th[1].op = "ayn_platform_write" /\ th[1].type = "fan"
    /\ th[1].attr = "input" /\ Unsupported(th[1])
    /\ ncalls = 2

\* ------------------------------------- SpecProbe: attach on each board

\* The machines the driver is loaded on: the three of dmi_table, one whose
\* board name matches no entry and one whose vendor does not.
Boards ==
    {LokiMax,
     [vendor |-> "ayn", name |-> "Loki MiniPro"],
     [vendor |-> "ayn", name |-> "Loki Zero"],
     [vendor |-> "ayn", name |-> "Other"],
     [vendor |-> "AYANEO", name |-> "Loki Max"]}

\* Values offered to pwm1 after attach.
ProbePwmInputs == {0, 100, 128, 129, 254, 255}

ReqsProbe ==
    {Rq("ayn_platform_write", "pwm", "input", 0, v) : v \in ProbePwmInputs}
    \cup {Rq("ayn_platform_read", "pwm", "input", 0, 0)}

InitProbe == InitWith({ECReset}, Boards, {REV_PLATFORM, REV_SENSORS, REV_DMI})

NextProbe ==
    \/ ayn_platform_probe(MaxSeqCalls)
    \/ ayn_platform_exit(MaxSeqCalls)
    \/ \E t \in Callers :
          \/ \E rq \in ReqsProbe : Call(t, rq, 77, MaxSeqCalls)
          \/ lock_ok(t)
          \/ lock_fail(t)
          \/ ec_read_ok(t)
          \/ \E err \in ECErrors : ec_read_fail(t, err)
          \/ ec_write_ok(t)
          \/ \E err \in ECErrors : ec_write_fail(t, err)
          \/ unlock_ok(t)
          \/ unlock_fail(t)

SpecProbe == InitProbe /\ [][NextProbe]_vars

\* C25 (as claimed): after ayn_platform_probe on a board with a dmi_table
\* entry, model is that entry's identifier, and a pwm1 write stores its
\* value shifted right by one.
C25_ModelFromDmiTable ==
    (attached /\ dmi_table(board.vendor, board.name) # 0) =>
        /\ model = dmi_table(board.vendor, board.name)
        /\ \A t \in Callers :
              (IsPwmWrite(th[t]) /\ th[t].pc = "ec_write")
              => th[t].wval = th[t].arg \div 2

\* C26 (as claimed): once a pwm1 write has reached the pwm set point
\* register, the register holds a value in the EC native range [0,128].
C26_SetPointInNativeRange ==
    wlog[AYN_SENSOR_PWM_FAN_SET_REG] # -1 =>
        ec[AYN_SENSOR_PWM_FAN_SET_REG] \in 0..128

\* ------------------- SpecLedRace: brightness and led_mode, concurrently

ReqsLedRace ==
    {RqStore("led_mode_store", 0, echo(v)) : v \in {0, 1}}

InitLedRace ==
    InitLedWith({AYN_LED_MODE_BREATH, AYN_LED_MODE_WRITE}, {<<255, 128, 0>>})

\* The thread that loads the module sets the brightness, a second caller
\* writes led_mode.
NextLedRace ==
    \/ ayn_platform_probe(MaxRaceCalls)
    \/ ayn_platform_exit(MaxRaceCalls)
    \/ \E rq \in ReqsLedRace :
          \E t \in Callers \ {KThread} : Call(t, rq, 77, MaxRaceCalls)
    \/ ayn_led_mc_brightness_set(KThread, 255, 77, MaxRaceCalls)
    \/ \E t \in Callers :
          \/ lock_ok(t)
          \/ lock_fail(t)
          \/ ec_read_ok(t)
          \/ \E err \in ECErrors : ec_read_fail(t, err)
          \/ ec_write_ok(t)
          \/ \E err \in ECErrors : ec_write_fail(t, err)
          \/ unlock_ok(t)
          \/ unlock_fail(t)

SpecLedRace == InitLedRace /\ [][NextLedRace]_vars

\* C27 (as claimed): whenever a brightness set is about to write an RGB
\* channel register, the mode register holds 0xAA or 0x55.
C27_ChannelWriteOnlyInManual ==
    \A t \in Callers :
        (IsLedSet(th[t]) /\ th[t].pc = "ec_write"
            /\ th[t].reg \in {AYN_LED_MC_R_REG, AYN_LED_MC_G_REG,
                              AYN_LED_MC_B_REG})
        => ec[AYN_LED_MODE_REG] \in {AYN_LED_MODE_WRITE,
                                     AYN_LED_MODE_WRITE_ENABLED}

\* Some caller's led_mode write of 0 has completed successfully and the
\* mode register still holds what it wrote.
BreathingSet ==
    /\ ec[AYN_LED_MODE_REG] = AYN_LED_MODE_BREATH
    /\ wlog[AYN_LED_MODE_REG] = 0
    /\ \E u \in Callers :
          /\ th[u].op = "led_mode_store" /\ th[u].arg = 0
          /\ th[u].pc = "done" /\ th[u].ret > 0

\* C28 (as claimed): after a completed led_mode write of 0 the mode register
\* leaves 0x00 only by a led_mode write: no step of a brightness set changes
\* it.
C28_BreathingStaysUntilModeWrite ==
    [][(BreathingSet /\ ec'[AYN_LED_MODE_REG] # AYN_LED_MODE_BREATH)
        => \E t \in Callers :
              th[t].op = "led_mode_store" /\ th[t].pc = "ec_write"]_vars

====
